---- MODULE Spec2Model ----
(***************************************************************************)
(* Geboorteplan-agent (app.py): the per-session workflow state and the     *)
(* tools that mutate it.  Every tool loads the session, mutates it and     *)
(* saves it again, so one action is one complete tool call on the          *)
(* persisted session state.                                                *)
(***************************************************************************)
EXTENDS Integers, Sequences, FiniteSets, TLC

VARIABLES stage,             \* st["stage"]
          themes,            \* st["plan"]["themes"]   : list of {name, is_custom}
          topics,            \* st["plan"]["topics"]   : insertion-ordered dict theme -> list of names
          qa_items,          \* st["plan"]["qa_items"] : list of {theme, topic, question, answer}
          qa_queue,          \* st["qa_queue"]         : list of {theme, topic, question}
          current_question,  \* st["current_question"] : {theme, topic, question} or None
          op,                \* the tool call that was executed last, with its arguments
          ret,               \* the string that call returned
          calls,             \* number of tool calls executed so far
          history,           \* st["history"] as persisted: system, user, assistant, tool entries
          pc,                \* position of the /agent request: idle, llm, tools, returned,
                             \* summary_load, summary_call, summary_insert, done
          round,             \* completion-service calls made by run_main_agent_loop this turn
          msg,               \* resp.choices[0].message of the current round, or None
          todo,              \* tool calls of msg that are not executed yet
          tool_results,      \* tool_results of the current round
          reply,             \* return value of run_main_agent_loop, "" before it returns
          payload,           \* JSON body the /agent route answers with, or None
          st,                \* the loop's in-memory st without its history, or None
          summary,           \* summary of save_plan_summary, "" outside the function
          turns,             \* concurrent requests: position and local copies of each
          summaries          \* the summary column of the rows of table summaries

toolvars == <<stage, themes, topics, qa_items, qa_queue, current_question, op, ret, calls>>

loopvars == <<history, pc, round, msg, todo, tool_results, reply, payload, st, summary,
             turns, summaries>>

vars == <<stage, themes, topics, qa_items, qa_queue, current_question, op, ret, calls,
          history, pc, round, msg, todo, tool_results, reply, payload, st, summary,
          turns, summaries>>

plan == <<themes, topics, qa_items>>

(***************************************************************************)
(* Bounds of the exploration.                                              *)
(***************************************************************************)
MaxCalls == 6          \* tool calls per behaviour, general specification
MaxThemeCalls == 8     \* tool calls per behaviour, theme specification
MaxTopicCalls == 5     \* tool calls per behaviour, topic specification
MaxQACalls == 8        \* tool calls per behaviour, question/answer specification
NumThemeNames == 7     \* theme names offered to add_item in the theme specification
NumTopicNames == 5     \* topic names offered to add_item in the topic specification
NumResponses == 8      \* responses the completion service chooses from, loop specification
MaxRequests == 3       \* /agent requests per behaviour, history specification

(***************************************************************************)
(* Program constants.                                                      *)
(***************************************************************************)
MaxThemes == 6
MaxTopics == 4

THEME_SELECTION == "THEME_SELECTION"
TOPIC_SELECTION == "TOPIC_SELECTION"
QA_SESSION == "QA_SESSION"
COMPLETED == "COMPLETED"

Stage == {THEME_SELECTION, TOPIC_SELECTION, QA_SESSION, COMPLETED}

DEFAULT_THEMES == <<"Ondersteuning", "Bevalling & medisch beleid", "Sfeer en omgeving",
                    "Voeding na de geboorte", "Kraamtijd", "Communicatie",
                    "Speciale wensen", "Fotografie en video", "Comfortmaatregelen",
                    "Partnerbetrokkenheid">>

DEFAULT_TOPICS == <<"Aanwezigheid partner", "Rol van de partner", "Aanwezigheid doula",
                    "Communicatie met zorgverleners", "Pijnbestrijding opties",
                    "Houding tijdens bevallen", "Medische interventies">>

None == [none |-> TRUE]

\* two requests of one session that are served at the same time
Procs == {1, 2}

\* a request that has not started: no session loaded, no round run
IdleTurn ==
    [pc |-> "idle", st |-> None, tool_st |-> None, round |-> 0, tool_results |-> <<>>,
     added |-> FALSE, summary |-> "", status |-> 0]

\* an absent (None) or empty theme_context is falsy in "and theme_context"
NoContext == ""

Truthy(s) == s # NoContext

Range(s) == {s[i] : i \in 1..Len(s)}

(***************************************************************************)
(* The insertion-ordered dict plan["topics"], as a sequence of             *)
(* [key, val] entries with pairwise different keys.                        *)
(***************************************************************************)
Keys(d) == {d[i].key : i \in 1..Len(d)}

HasKey(d, k) == k \in Keys(d)

\* d.get(k, [])
Get(d, k) == IF HasKey(d, k)
             THEN d[CHOOSE i \in 1..Len(d) : d[i].key = k].val
             ELSE <<>>

\* d[k] = v : replaces the value in place, or appends a new key
Put(d, k, v) == IF HasKey(d, k)
                THEN [i \in 1..Len(d) |-> IF d[i].key = k THEN [key |-> k, val |-> v] ELSE d[i]]
                ELSE Append(d, [key |-> k, val |-> v])

\* d.setdefault(k, [])
SetDefault(d, k) == IF HasKey(d, k) THEN d ELSE Append(d, [key |-> k, val |-> <<>>])

\* d.pop(k, None)
Pop(d, k) == SelectSeq(d, LAMBDA e : e.key # k)

\* list.remove(x) : removes the first occurrence
RemoveFirst(s, x) ==
    LET i == CHOOSE j \in 1..Len(s) : s[j] = x /\ \A h \in 1..(j-1) : s[h] # x
    IN  SubSeq(s, 1, i-1) \o SubSeq(s, i+1, Len(s))

ThemeNamesOf(ts) == {ts[i].name : i \in 1..Len(ts)}

\* f"Wat zijn je wensen rondom {t}?"
Question(t) == "Wat zijn je wensen rondom " \o t \o "?"

RetOk == "ok"
RetMaxThemes == "Error:max 6 thema's."
RetAlreadyQA == "We zijn al in de vragenronde."
RetAllAnswered == "Alle vragen zijn beantwoord!"
RetNoQuestion == "Error:Geen actieve vraag."
RetSaved == "Antwoord opgeslagen."

IsError(r) == Len(r) >= 5 /\ SubSeq(r, 1, 5) = "Error"

\* The first line of the system prompt.  The program reads the prompt only
\* in the guardrail, which finds four words or more and no vague phrase in
\* it, as in this line.
SYSTEM_PROMPT == "# MAE - GEBOORTEPLAN ASSISTENT"

(***************************************************************************)
(* get_session on a session id that is not stored yet.                     *)
(***************************************************************************)
\* the session that get_session makes for an id without a row
NewSession ==
    [stage |-> THEME_SELECTION, themes |-> <<>>, topics |-> <<>>, qa_items |-> <<>>,
     qa_queue |-> <<>>, current_question |-> None,
     history |-> <<[role |-> "system", content |-> SYSTEM_PROMPT]>>]

\* the state before a request: s is the stored session, rows the summaries
SessionStarts(s, rows) ==
    /\ stage = s.stage
    /\ themes = s.themes
    /\ topics = s.topics
    /\ qa_items = s.qa_items
    /\ qa_queue = s.qa_queue
    /\ current_question = s.current_question
    /\ op = [tool |-> "get_session"]
    /\ ret = ""
    /\ calls = 0
    /\ history = s.history
    /\ pc = "idle"
    /\ round = 0
    /\ msg = None
    /\ todo = <<>>
    /\ tool_results = <<>>
    /\ reply = ""
    /\ payload = None
    /\ st = None
    /\ summary = ""
    /\ turns = [p \in Procs |-> IdleTurn]
    /\ summaries = rows

Init == SessionStarts(NewSession, <<>>)

\* get_session: the persisted session, without its history
Session ==
    [stage |-> stage, themes |-> themes, topics |-> topics, qa_items |-> qa_items,
     qa_queue |-> qa_queue, current_question |-> current_question]

\* A tool that is called directly, outside a turn of the /agent route.
Direct == UNCHANGED loopvars

Tick == calls' = calls + 1

(***************************************************************************)
(* add_item                                                                *)
(***************************************************************************)
ThemeLimitOffByOne(ts) == Len(ts) > MaxThemes

\* len(plan["themes"])>=6
ThemeLimitReached(ts) == Len(ts) >= MaxThemes

TopicFitsOffByOne(l, name) == Len(l) <= MaxTopics /\ name \notin Range(l)

\* len(plan["topics"][theme_context])<4 and name not in plan["topics"][theme_context]
TopicFits(l, name) == Len(l) < MaxTopics /\ name \notin Range(l)

StageAfterAddThemeAlways(isNew, cur) == TOPIC_SELECTION

\* st["stage"]=TOPIC_SELECTION sits inside "if name not in [...]"
StageAfterAddTheme(isNew, cur) == IF isNew THEN TOPIC_SELECTION ELSE cur

add_item(item_type, name, theme_context, is_custom) ==
    /\ op' = [tool |-> "add_item", item_type |-> item_type, name |-> name,
              theme_context |-> theme_context, is_custom |-> is_custom]
    /\ Tick
    /\ IF item_type = "theme"
       THEN IF ThemeLimitReached(themes)
            THEN /\ ret' = RetMaxThemes
                 /\ UNCHANGED <<stage, themes, topics>>
            ELSE /\ ret' = RetOk
                 /\ themes' = IF name \notin ThemeNamesOf(themes)
                               THEN Append(themes, [name |-> name, is_custom |-> is_custom])
                               ELSE themes
                 /\ stage' = StageAfterAddTheme(name \notin ThemeNamesOf(themes), stage)
                 /\ UNCHANGED topics
       ELSE /\ ret' = RetOk
            /\ UNCHANGED <<stage, themes>>
            /\ IF item_type = "topic" /\ Truthy(theme_context)
               THEN LET d == SetDefault(topics, theme_context)
                        l == Get(d, theme_context)
                    IN  topics' = IF TopicFits(l, name)
                                  THEN Put(d, theme_context, Append(l, name))
                                  ELSE d
               ELSE UNCHANGED topics
    /\ UNCHANGED <<qa_items, qa_queue, current_question>>

(***************************************************************************)
(* remove_item                                                             *)
(***************************************************************************)
remove_item_cascading(item_type, name, theme_context) ==
    /\ op' = [tool |-> "remove_item", item_type |-> item_type, name |-> name,
              theme_context |-> theme_context]
    /\ Tick
    /\ ret' = RetOk
    /\ IF item_type = "theme"
       THEN /\ themes' = SelectSeq(themes, LAMBDA t : t.name # name)
            /\ topics' = Pop(topics, name)
            /\ UNCHANGED qa_items
       ELSE /\ UNCHANGED themes
            /\ IF /\ item_type = "topic"
                  /\ Truthy(theme_context)
                  /\ name \in Range(Get(topics, theme_context))
               THEN /\ topics' = Put(topics, theme_context,
                                     RemoveFirst(Get(topics, theme_context), name))
                    /\ qa_items' = SelectSeq(qa_items,
                                      LAMBDA q : ~(q.theme = theme_context /\ q.topic = name))
               ELSE UNCHANGED <<topics, qa_items>>
    /\ UNCHANGED <<stage, qa_queue, current_question>>

remove_item(item_type, name, theme_context) ==
    /\ op' = [tool |-> "remove_item", item_type |-> item_type, name |-> name,
              theme_context |-> theme_context]
    /\ Tick
    /\ ret' = RetOk
    /\ IF item_type = "theme"
       THEN /\ themes' = SelectSeq(themes, LAMBDA t : t.name # name)
            /\ topics' = Pop(topics, name)
       ELSE /\ UNCHANGED themes
            /\ IF /\ item_type = "topic"
                  /\ Truthy(theme_context)
                  /\ name \in Range(Get(topics, theme_context))
               THEN topics' = Put(topics, theme_context,
                                  RemoveFirst(Get(topics, theme_context), name))
               ELSE UNCHANGED topics
    /\ UNCHANGED <<stage, qa_items, qa_queue, current_question>>

(***************************************************************************)
(* update_item                                                             *)
(***************************************************************************)
update_item(item_type, old_name, new_name, theme_context) ==
    /\ op' = [tool |-> "update_item", item_type |-> item_type, old_name |-> old_name,
              new_name |-> new_name, theme_context |-> theme_context]
    /\ Tick
    /\ ret' = RetOk
    /\ IF item_type = "theme"
       THEN /\ themes' = [i \in 1..Len(themes) |->
                            IF themes[i].name = old_name
                            THEN [themes[i] EXCEPT !.name = new_name]
                            ELSE themes[i]]
            /\ topics' = IF HasKey(topics, old_name)
                         THEN Put(Pop(topics, old_name), new_name, Get(topics, old_name))
                         ELSE topics
            /\ UNCHANGED qa_items
       ELSE IF item_type = "topic" /\ Truthy(theme_context)
            THEN /\ topics' = LET l == Get(topics, theme_context)
                              IN  Put(topics, theme_context,
                                      [i \in 1..Len(l) |->
                                          IF l[i] = old_name THEN new_name ELSE l[i]])
                 /\ qa_items' = [i \in 1..Len(qa_items) |->
                                    IF /\ qa_items[i].theme = theme_context
                                       /\ qa_items[i].topic = old_name
                                    THEN [qa_items[i] EXCEPT !.topic = new_name]
                                    ELSE qa_items[i]]
                 /\ UNCHANGED themes
            ELSE UNCHANGED <<themes, topics, qa_items>>
    /\ UNCHANGED <<stage, qa_queue, current_question>>

(***************************************************************************)
(* start_qa_session                                                        *)
(***************************************************************************)
RECURSIVE QueueOfTopics(_, _)
\* one entry per topic of theme
QueueOfTopics(theme, l) ==
    IF l = <<>> THEN <<>>
    ELSE <<[theme |-> theme, topic |-> Head(l), question |-> Question(Head(l))]>>
         \o QueueOfTopics(theme, Tail(l))

RECURSIVE BuildQueue(_)
\* for theme,topics in plan["topics"].items(): for t in topics: append
BuildQueue(d) ==
    IF d = <<>> THEN <<>>
    ELSE QueueOfTopics(Head(d).key, Head(d).val) \o BuildQueue(Tail(d))

start_qa_session ==
    /\ op' = [tool |-> "start_qa_session"]
    /\ Tick
    /\ IF stage = QA_SESSION
       THEN /\ ret' = RetAlreadyQA
            /\ UNCHANGED <<stage, qa_queue>>
       ELSE /\ ret' = RetOk
            /\ qa_queue' = BuildQueue(topics)
            /\ stage' = QA_SESSION
    /\ UNCHANGED <<themes, topics, qa_items, current_question>>

(***************************************************************************)
(* get_next_question                                                       *)
(***************************************************************************)
\* f"Vraag over '{topic}': {question}"
QuestionText(q) == "Vraag over '" \o q.topic \o "': " \o q.question

StageWhenQueueEmptyKept(cur) == cur

\* if not st["qa_queue"]: st["stage"]=Stage.COMPLETED.value
StageWhenQueueEmpty(cur) == COMPLETED

get_next_question ==
    /\ op' = [tool |-> "get_next_question"]
    /\ Tick
    /\ IF qa_queue = <<>>
       THEN /\ stage' = StageWhenQueueEmpty(stage)
            /\ ret' = RetAllAnswered
            /\ UNCHANGED <<qa_queue, current_question>>
       ELSE /\ current_question' = Head(qa_queue)
            /\ qa_queue' = Tail(qa_queue)
            /\ ret' = QuestionText(Head(qa_queue))
            /\ UNCHANGED stage
    /\ UNCHANGED <<themes, topics, qa_items>>

(***************************************************************************)
(* log_answer                                                              *)
(***************************************************************************)
log_answer(answer) ==
    /\ op' = [tool |-> "log_answer", answer |-> answer]
    /\ Tick
    /\ IF current_question = None
       THEN /\ ret' = RetNoQuestion
            /\ UNCHANGED <<qa_items, current_question>>
       ELSE /\ qa_items' = Append(qa_items,
                                  [theme |-> current_question.theme,
                                   topic |-> current_question.topic,
                                   question |-> current_question.question,
                                   answer |-> answer])
            /\ current_question' = None
            /\ ret' = RetSaved
    /\ UNCHANGED <<stage, themes, topics, qa_queue>>

(***************************************************************************)
(* update_question, remove_question, update_answer                         *)
(***************************************************************************)
update_question(old_question, new_question) ==
    /\ op' = [tool |-> "update_question", old_question |-> old_question,
              new_question |-> new_question]
    /\ Tick
    /\ ret' = RetOk
    /\ qa_queue' = [i \in 1..Len(qa_queue) |->
                       IF qa_queue[i].question = old_question
                       THEN [qa_queue[i] EXCEPT !.question = new_question]
                       ELSE qa_queue[i]]
    /\ qa_items' = [i \in 1..Len(qa_items) |->
                       IF qa_items[i].question = old_question
                       THEN [qa_items[i] EXCEPT !.question = new_question]
                       ELSE qa_items[i]]
    /\ current_question' =
          IF current_question # None /\ current_question.question = old_question
          THEN [current_question EXCEPT !.question = new_question]
          ELSE current_question
    /\ UNCHANGED <<stage, themes, topics>>

remove_question(question_text) ==
    /\ op' = [tool |-> "remove_question", question_text |-> question_text]
    /\ Tick
    /\ ret' = RetOk
    /\ qa_queue' = SelectSeq(qa_queue, LAMBDA q : q.question # question_text)
    /\ qa_items' = SelectSeq(qa_items, LAMBDA q : q.question # question_text)
    /\ UNCHANGED <<stage, themes, topics, current_question>>

update_answer(question_text, new_answer) ==
    /\ op' = [tool |-> "update_answer", question_text |-> question_text,
              new_answer |-> new_answer]
    /\ Tick
    /\ ret' = RetOk
    /\ qa_items' = [i \in 1..Len(qa_items) |->
                       IF qa_items[i].question = question_text
                       THEN [qa_items[i] EXCEPT !.answer = new_answer]
                       ELSE qa_items[i]]
    /\ UNCHANGED <<stage, themes, topics, qa_queue, current_question>>

(***************************************************************************)
(* Inputs of the general specification: every mutating tool, called with   *)
(* arguments from small sets.                                              *)
(***************************************************************************)
ThemeArgs == {DEFAULT_THEMES[1], DEFAULT_THEMES[2]}
TopicArgs == {DEFAULT_TOPICS[1], DEFAULT_TOPICS[2]}
ContextArgs == ThemeArgs \cup {NoContext}
AnswerArgs == {"ja", "nee"}
QuestionArgs == {Question(t) : t \in TopicArgs}

AddTheme == \E n \in ThemeArgs, c \in BOOLEAN : add_item("theme", n, NoContext, c)
AddTopic == \E n \in TopicArgs, tc \in ContextArgs : add_item("topic", n, tc, FALSE)
RemoveTheme == \E n \in ThemeArgs : remove_item("theme", n, NoContext)
RemoveTopic == \E n \in TopicArgs, tc \in ContextArgs : remove_item("topic", n, tc)
RenameTheme == \E o \in ThemeArgs, n \in ThemeArgs : update_item("theme", o, n, NoContext)
RenameTopic == \E o \in TopicArgs, n \in TopicArgs, tc \in ContextArgs :
                  update_item("topic", o, n, tc)
StartQA == start_qa_session
NextQuestion == get_next_question
LogAnswer == \E a \in AnswerArgs : log_answer(a)
UpdateQuestion == \E o \in QuestionArgs, n \in QuestionArgs : update_question(o, n)
RemoveQuestion == \E q \in QuestionArgs : remove_question(q)
UpdateAnswer == \E q \in QuestionArgs, a \in AnswerArgs : update_answer(q, a)

Next ==
    \/ calls < MaxCalls /\ AddTheme /\ Direct
    \/ calls < MaxCalls /\ AddTopic /\ Direct
    \/ calls < MaxCalls /\ RemoveTheme /\ Direct
    \/ calls < MaxCalls /\ RemoveTopic /\ Direct
    \/ calls < MaxCalls /\ RenameTheme /\ Direct
    \/ calls < MaxCalls /\ RenameTopic /\ Direct
    \/ calls < MaxCalls /\ StartQA /\ Direct
    \/ calls < MaxCalls /\ NextQuestion /\ Direct
    \/ calls < MaxCalls /\ LogAnswer /\ Direct
    \/ calls < MaxCalls /\ UpdateQuestion /\ Direct
    \/ calls < MaxCalls /\ RemoveQuestion /\ Direct
    \/ calls < MaxCalls /\ UpdateAnswer /\ Direct

Spec == Init /\ [][Next]_vars

(***************************************************************************)
(* Theme specification: add_item(item_type='theme') only, with more names  *)
(* than the plan may hold.                                                 *)
(***************************************************************************)
ThemeCatalog == {DEFAULT_THEMES[i] : i \in 1..NumThemeNames}

AddCatalogTheme == \E n \in ThemeCatalog : add_item("theme", n, NoContext, FALSE)

NextThemes == calls < MaxThemeCalls /\ AddCatalogTheme /\ Direct

SpecThemes == Init /\ [][NextThemes]_vars

(***************************************************************************)
(* Topic specification: add, remove and rename of themes and topics, with  *)
(* more topic names than a theme may hold.                                 *)
(***************************************************************************)
TopicCatalog == {DEFAULT_TOPICS[i] : i \in 1..NumTopicNames}

AddCatalogTopic == \E n \in TopicCatalog, tc \in ThemeArgs : add_item("topic", n, tc, FALSE)
AddPlainTheme == \E n \in ThemeArgs : add_item("theme", n, NoContext, FALSE)
RemoveListedTopic == \E n \in TopicArgs, tc \in ThemeArgs : remove_item("topic", n, tc)
RenameListedTopic == \E o \in TopicArgs, n \in TopicArgs, tc \in ThemeArgs :
                        update_item("topic", o, n, tc)

NextTopics ==
    \/ calls < MaxTopicCalls /\ AddCatalogTopic /\ Direct
    \/ calls < MaxTopicCalls /\ AddPlainTheme /\ Direct
    \/ calls < MaxTopicCalls /\ RemoveTheme /\ Direct
    \/ calls < MaxTopicCalls /\ RemoveListedTopic /\ Direct
    \/ calls < MaxTopicCalls /\ RenameTheme /\ Direct
    \/ calls < MaxTopicCalls /\ RenameListedTopic /\ Direct

SpecTopics == Init /\ [][NextTopics]_vars

(***************************************************************************)
(* Question/answer specification: one theme, its topics and the QA tools,  *)
(* long enough to run the question round twice.                            *)
(***************************************************************************)
QATheme == DEFAULT_THEMES[1]

AddQATheme == add_item("theme", QATheme, NoContext, FALSE)
AddQATopic == \E n \in TopicArgs : add_item("topic", n, QATheme, FALSE)

NextQA ==
    \/ calls < MaxQACalls /\ AddQATheme /\ Direct
    \/ calls < MaxQACalls /\ AddQATopic /\ Direct
    \/ calls < MaxQACalls /\ StartQA /\ Direct
    \/ calls < MaxQACalls /\ NextQuestion /\ Direct
    \/ calls < MaxQACalls /\ LogAnswer /\ Direct

SpecQA == Init /\ [][NextQA]_vars

(***************************************************************************)
(* Properties.                                                             *)
(***************************************************************************)
NoDuplicates(s) == \A i, j \in 1..Len(s) : s[i] = s[j] => i = j

\* C1: under any sequence of add_item(item_type='theme') calls, themes never
\* has more than 6 entries and never holds two entries with the same name.
C1_ThemesBoundedUnique ==
    /\ Len(themes) <= 6
    /\ NoDuplicates([i \in 1..Len(themes) |-> themes[i].name])

\* six themes are stored and a seventh, new name has just been refused
C1_Witness ==
    /\ Len(themes) = 6
    /\ op.tool = "add_item" /\ op.item_type = "theme"
    /\ op.name \notin ThemeNamesOf(themes)
    /\ ret = RetMaxThemes

\* at least one theme, and every theme has a non-empty topic list
SelectionsComplete ==
    /\ Len(themes) >= 1
    /\ \A i \in 1..Len(themes) : Len(Get(topics, themes[i].name)) >= 1

\* C2: start_qa_session moves the session to QA_SESSION if and only if there
\* is at least one theme and every theme has a non-empty topic list; in every
\* other case the stage is unchanged and the returned string is an error.
C2_ConfirmIffComplete ==
    [][start_qa_session =>
          IF SelectionsComplete
          THEN stage' = QA_SESSION
          ELSE stage' = stage /\ IsError(ret')]_vars

\* C3: in every reachable state every key of topics that holds at least one
\* topic is the name of a theme that is present in themes.
C3_TopicsOnlyUnderThemes ==
    \A i \in 1..Len(topics) :
        Len(topics[i].val) >= 1 => topics[i].key \in ThemeNamesOf(themes)

\* C4: in every reachable state, after any sequence of add, remove and rename
\* calls on themes and topics, every topic list has at most 4 entries.
C4_TopicsBounded == \A i \in 1..Len(topics) : Len(topics[i].val) <= 4

\* a theme holds four topics and a fifth, new topic has just been refused
C4_Witness ==
    /\ op.tool = "add_item" /\ op.item_type = "topic"
    /\ Len(Get(topics, op.theme_context)) = 4
    /\ op.name \notin Range(Get(topics, op.theme_context))

\* C5: whenever stage is COMPLETED, qa_queue is empty and current_question
\* is None: no question is pending.
C5_CompletedNothingPending ==
    stage = COMPLETED => (qa_queue = <<>> /\ current_question = None)

\* C6: in every reachable state, a non-empty qa_queue or a pending
\* current_question implies stage = QA_SESSION.
C6_PendingOnlyInQA ==
    (qa_queue # <<>> \/ current_question # None) => stage = QA_SESSION

StageRank(s) == CASE s = THEME_SELECTION -> 0
                  [] s = TOPIC_SELECTION -> 1
                  [] s = QA_SESSION -> 2
                  [] s = COMPLETED -> 3

\* C7 (as claimed): no tool call moves the stage backwards in the order
\* THEME_SELECTION < TOPIC_SELECTION < QA_SESSION < COMPLETED.
C7_StageNeverMovesBack == [][StageRank(stage') >= StageRank(stage)]_vars

\* C7 (amended): the stage moves backwards only when add_item appends a new
\* theme (to TOPIC_SELECTION) or when start_qa_session is called in COMPLETED
\* (to QA_SESSION); every other tool call keeps or advances the stage.
C7_MovesBackOnlyByNewThemeOrRestart ==
    [][StageRank(stage') < StageRank(stage) =>
          \/ /\ op'.tool = "add_item" /\ op'.item_type = "theme"
             /\ themes' = Append(themes, [name |-> op'.name, is_custom |-> op'.is_custom])
             /\ stage' = TOPIC_SELECTION
          \/ /\ op'.tool = "start_qa_session"
             /\ stage = COMPLETED /\ stage' = QA_SESSION]_vars

\* a new theme was added during the question round: back in TOPIC_SELECTION
C7_Witness ==
    /\ op.tool = "add_item" /\ op.item_type = "theme"
    /\ stage = TOPIC_SELECTION
    /\ qa_queue # <<>>

\* C8: qa_items holds at most one entry per (theme, question) pair, so a
\* question that is delivered and answered again replaces its earlier answer.
C8_OneEntryPerThemeQuestion ==
    \A i, j \in 1..Len(qa_items) :
        (qa_items[i].theme = qa_items[j].theme /\ qa_items[i].question = qa_items[j].question)
            => i = j

\* C9: remove_item(item_type='theme') on an existing theme leaves no element
\* of themes, topics or qa_items that refers to the removed theme.
C9_RemoveThemeCascades ==
    [][(/\ op'.tool = "remove_item" /\ op'.item_type = "theme"
        /\ op'.name \in ThemeNamesOf(themes)) =>
          /\ op'.name \notin ThemeNamesOf(themes')
          /\ ~HasKey(topics', op'.name)
          /\ \A i \in 1..Len(qa_items') : qa_items'[i].theme # op'.name]_vars

\* the step is a remove_item(item_type='topic') call on a topic that is
\* listed under its theme
RemovesListedTopic ==
    /\ op'.tool = "remove_item" /\ op'.item_type = "topic"
    /\ op'.name \in Range(Get(topics, op'.theme_context))

\* C10 (as claimed): remove_item(item_type='topic') on an existing topic
\* removes the topic and every qa_items entry of that theme and topic.
C10_RemoveTopicCascades ==
    [][RemovesListedTopic =>
          /\ op'.name \notin Range(Get(topics', op'.theme_context))
          /\ \A i \in 1..Len(qa_items') :
                ~(qa_items'[i].theme = op'.theme_context /\ qa_items'[i].topic = op'.name)]_vars

\* C10 (amended): remove_item(item_type='topic') on an existing topic removes
\* the first occurrence of the name from the theme's list and leaves
\* qa_items as it was: logged answers for the topic are kept.
C10_RemoveTopicKeepsAnswers ==
    [][RemovesListedTopic =>
          /\ Get(topics', op'.theme_context)
                = RemoveFirst(Get(topics, op'.theme_context), op'.name)
          /\ qa_items' = qa_items]_vars

\* a topic with a logged answer has just been removed from its theme
C10_Witness ==
    /\ op.tool = "remove_item" /\ op.item_type = "topic"
    /\ op.name \notin Range(Get(topics, op.theme_context))
    /\ \E i \in 1..Len(qa_items) :
          qa_items[i].theme = op.theme_context /\ qa_items[i].topic = op.name

\* the step is an update_item(item_type='theme') call that renames an
\* existing theme to a different name
RenamesExistingTheme ==
    /\ op'.tool = "update_item" /\ op'.item_type = "theme"
    /\ op'.old_name \in ThemeNamesOf(themes)
    /\ op'.old_name # op'.new_name

\* the step is an update_item(item_type='topic') call that renames a topic
\* listed under its theme to a different name
RenamesListedTopic ==
    /\ op'.tool = "update_item" /\ op'.item_type = "topic"
    /\ op'.old_name \in Range(Get(topics, op'.theme_context))
    /\ op'.old_name # op'.new_name

\* C11: update_item renames in place and re-links every dependent entry.
\* After a theme rename the topics of old are under new and no theme, topics
\* key, qa_items entry or qa_queue entry refers to old; after a topic rename
\* no topic list entry or qa_items entry of that theme carries the old name.
C11_RenameRelinks ==
    [][/\ RenamesExistingTheme =>
            /\ op'.old_name \notin ThemeNamesOf(themes')
            /\ ~HasKey(topics', op'.old_name)
            /\ HasKey(topics, op'.old_name) =>
                   Get(topics', op'.new_name) = Get(topics, op'.old_name)
            /\ \A i \in 1..Len(qa_items') : qa_items'[i].theme # op'.old_name
            /\ \A i \in 1..Len(qa_queue') : qa_queue'[i].theme # op'.old_name
       /\ RenamesListedTopic =>
            /\ op'.old_name \notin Range(Get(topics', op'.theme_context))
            /\ \A i \in 1..Len(qa_items') :
                  ~(/\ qa_items'[i].theme = op'.theme_context
                    /\ qa_items'[i].topic = op'.old_name)]_vars

\* the step is a remove_item or update_item call whose theme or topic name
\* does not exist in the plan
TargetsMissingName ==
    /\ op'.tool \in {"remove_item", "update_item"}
    /\ LET n == IF op'.tool = "remove_item" THEN op'.name ELSE op'.old_name
       IN  \/ op'.item_type = "theme" /\ n \notin ThemeNamesOf(themes)
           \/ op'.item_type = "topic" /\ n \notin Range(Get(topics, op'.theme_context))

\* C12: remove_item and update_item called with a theme or topic name that
\* does not exist return an "Error"-prefixed string and leave themes, topics
\* and qa_items unchanged.
C12_MissingNameIsError ==
    [][TargetsMissingName =>
          /\ IsError(ret')
          /\ UNCHANGED <<themes, topics, qa_items>>]_vars

\* C13: with 6 themes stored, add_item(item_type='theme') with a new name
\* returns the max-themes error and leaves themes, topics and stage as they
\* were, themes still holding 6 entries.
C13_SeventhThemeRefused ==
    [][(/\ op'.tool = "add_item" /\ op'.item_type = "theme"
        /\ Len(themes) = 6
        /\ op'.name \notin ThemeNamesOf(themes)) =>
          /\ ret' = RetMaxThemes /\ IsError(ret')
          /\ UNCHANGED <<themes, topics, stage>>
          /\ Len(themes') = 6]_vars

\* the seventh name of the catalogue was refused after six others were added
C13_Witness ==
    /\ calls >= 7
    /\ ret = RetMaxThemes /\ op.tool = "add_item"
    /\ op.name \notin ThemeNamesOf(themes)
    /\ Len(themes) = 6 /\ stage = TOPIC_SELECTION

\* C14: add_item(item_type='theme') with a name that is already in themes
\* leaves themes and topics unchanged and returns a non-error result, in
\* every state, also when 6 themes are stored.
C14_DuplicateThemeIsNoOp ==
    [][(/\ op'.tool = "add_item" /\ op'.item_type = "theme"
        /\ op'.name \in ThemeNamesOf(themes)) =>
          /\ UNCHANGED <<themes, topics>>
          /\ ~IsError(ret')]_vars

\* C15: get_next_question with an empty qa_queue and no current_question
\* sets stage to COMPLETED and returns the terminal message; called again in
\* that state it changes nothing: stage stays COMPLETED and plan, qa_queue
\* and current_question are unchanged.
C15_NextOnEmptyCompletes ==
    [][(/\ op'.tool = "get_next_question"
        /\ qa_queue = <<>> /\ current_question = None) =>
          /\ stage' = COMPLETED
          /\ ret' = RetAllAnswered
          /\ UNCHANGED <<plan, qa_queue, current_question>>
          /\ stage = COMPLETED => UNCHANGED stage]_vars

\* every question was answered and get_next_question has ended the round
C15_Witness ==
    /\ op.tool = "get_next_question" /\ ret = RetAllAnswered
    /\ stage = COMPLETED
    /\ qa_queue = <<>> /\ current_question = None
    /\ qa_items # <<>>

\* number of qa_queue entries for topic t of theme k
QueuedFor(q, k, t) == Cardinality({i \in 1..Len(q) : q[i].theme = k /\ q[i].topic = t})

\* C16: after a start_qa_session that starts the round, qa_queue holds
\* exactly one question for every (theme, topic) pair of plan["topics"] and
\* nothing else, and get_next_question delivers the head of the queue and
\* sets COMPLETED only once the queue is empty.
C16_OneQuestionPerTopicFIFO ==
    [][/\ (op'.tool = "start_qa_session" /\ ret' = RetOk) =>
            /\ \A i \in 1..Len(topics) : \A t \in Range(topics[i].val) :
                  QueuedFor(qa_queue', topics[i].key, t) = 1
            /\ \A i \in 1..Len(qa_queue') :
                  /\ qa_queue'[i].topic \in Range(Get(topics, qa_queue'[i].theme))
                  /\ qa_queue'[i].question = Question(qa_queue'[i].topic)
       /\ (op'.tool = "get_next_question" /\ qa_queue # <<>>) =>
            /\ current_question' = Head(qa_queue)
            /\ qa_queue' = Tail(qa_queue)
            /\ stage' = stage
       /\ (op'.tool = "get_next_question" /\ stage' = COMPLETED /\ stage # COMPLETED) =>
            qa_queue = <<>>]_vars

(***************************************************************************)
(* Text operations of the agent loop: str.strip, str.split, str.lower,     *)
(* str.capitalize, the "in" test on strings, and the regular expression of *)
(* _auto_quick_replies.  Texts are strings; a character is a string of     *)
(* length one.                                                             *)
(***************************************************************************)
LowerCase == "abcdefghijklmnopqrstuvwxyz"
UpperCase == "ABCDEFGHIJKLMNOPQRSTUVWXYZ"
Digits == "0123456789_"

Char(s, i) == SubSeq(s, i, i)

CharsOf(s) == {Char(s, i) : i \in 1..Len(s)}

\* \s of the re module, for the characters of the modelled texts
IsSpace(ch) == ch \in {" ", "\t", "\n", "\r"}

\* \w of the re module, for the characters of the modelled texts
IsWordChar(ch) == ch \in CharsOf(LowerCase) \cup CharsOf(UpperCase) \cup CharsOf(Digits)

IndexIn(alphabet, ch) == CHOOSE i \in 1..Len(alphabet) : Char(alphabet, i) = ch

ToLower(ch) == IF ch \in CharsOf(UpperCase) THEN Char(LowerCase, IndexIn(UpperCase, ch)) ELSE ch

ToUpper(ch) == IF ch \in CharsOf(LowerCase) THEN Char(UpperCase, IndexIn(LowerCase, ch)) ELSE ch

RECURSIVE LowerFrom(_, _)
\* s[i-1:].lower()
LowerFrom(s, i) == IF i > Len(s) THEN "" ELSE ToLower(Char(s, i)) \o LowerFrom(s, i + 1)

\* s.lower()
LowerAll(s) == LowerFrom(s, 1)

\* s.capitalize()
Capitalize(s) == IF s = "" THEN "" ELSE ToUpper(Char(s, 1)) \o LowerFrom(s, 2)

NonSpaces(s) == {i \in 1..Len(s) : ~IsSpace(Char(s, i))}

\* s.strip()
Strip(s) ==
    IF NonSpaces(s) = {} THEN ""
    ELSE SubSeq(s, CHOOSE i \in NonSpaces(s) : \A j \in NonSpaces(s) : i <= j,
                   CHOOSE i \in NonSpaces(s) : \A j \in NonSpaces(s) : i >= j)

\* str.endswith("?")
EndsWithQuestionMark(s) == s # "" /\ Char(s, Len(s)) = "?"

AllSpace(s, a, b) == \A h \in a..b : IsSpace(Char(s, h))

NoNewline(s, a, b) == \A h \in a..b : Char(s, h) # "\n"

\* \b before position i of s
WordBoundary(s, i) ==
    LET before == i > 1 /\ IsWordChar(Char(s, i - 1))
        after == i <= Len(s) /\ IsWordChar(Char(s, i))
    IN  before # after

\* position of the "?" that \?$ matches: the last character, or the one
\* before a final newline
QuestionEnds(s) == {n \in 1..Len(s) : /\ Char(s, n) = "?"
                                      /\ \/ n = Len(s)
                                         \/ n = Len(s) - 1 /\ Char(s, Len(s)) = "\n"}

\* the matches <<i, j, k, l, n>> of \b(.+?)\s+of\s+(.+?)\?$ with re.I:
\* group 1 is s[i..j-1], "of" is s[k..k+1], group 2 is s[l..n-1]
OfMatches(s) ==
    LET n == Len(s)
        middles == {t \in (1..n) \X (1..n) \X (1..n) :
                       /\ t[1] < t[2] /\ t[2] + 2 < t[3]
                       /\ LowerAll(SubSeq(s, t[2], t[2] + 1)) = "of"
                       /\ AllSpace(s, t[1], t[2] - 1)
                       /\ AllSpace(s, t[2] + 2, t[3] - 1)}
        starts(t) == {i \in 1..(t[1] - 1) : WordBoundary(s, i) /\ NoNewline(s, i, t[1] - 1)}
        ends(t) == {e \in QuestionEnds(s) : t[3] < e /\ NoNewline(s, t[3], e - 1)}
    IN  UNION {{<<i, t[1], t[2], t[3], e>> : i \in starts(t), e \in ends(t)} : t \in middles}

\* re.search: leftmost start, lazy group 1, greedy \s+ before group 2
FirstOfMatch(s) ==
    CHOOSE m \in OfMatches(s) : \A o \in OfMatches(s) :
        \/ m[1] < o[1]
        \/ m[1] = o[1] /\ m[2] < o[2]
        \/ m[1] = o[1] /\ m[2] = o[2] /\ m[3] > o[3]
        \/ m[1] = o[1] /\ m[2] = o[2] /\ m[3] = o[3] /\ m[4] >= o[4]

\* replies of _auto_quick_replies
QuickReplies(content) ==
    IF OfMatches(content) # {}
    THEN CHOOSE replies \in {<<Capitalize(Strip(SubSeq(content, m[1], m[2] - 1))),
                                Capitalize(Strip(SubSeq(content, m[4], m[5] - 1)))>> :
                              m \in {FirstOfMatch(content)}} : TRUE
    ELSE <<"Ja", "Nee">>

\* text.split(): the words are the maximal runs of non-space characters
WordStarts(s) == {i \in 1..Len(s) : /\ ~IsSpace(Char(s, i))
                                    /\ (i = 1 \/ IsSpace(Char(s, i - 1)))}

\* v in text
Contains(text, v) == \E i \in 1..(Len(text) - Len(v) + 1) : SubSeq(text, i, i + Len(v) - 1) = v

VaguePhrases == {"weet niet", "geen idee", "idk"}

detect_sentiment(text) ==
    IF Cardinality(WordStarts(text)) < 4 \/ \E v \in VaguePhrases : Contains(LowerAll(text), v)
    THEN "needs_menu"
    ELSE "ok"

(***************************************************************************)
(* The tools as run_main_agent_loop calls them: fn(session_id=sid, **args) *)
(***************************************************************************)
MAX_TURNS == 5

TOOL_MAP == {"get_plan_status", "offer_choices", "add_item", "remove_item", "update_item",
             "start_qa_session", "get_next_question", "log_answer",
             "update_question", "remove_question", "update_answer",
             "find_web_resources", "vergelijk_opties", "geef_denkvraag",
             "find_external_organization", "check_onbeantwoorde_punten",
             "genereer_plan_tekst", "present_tool_choices", "save_plan_summary",
             "propose_quick_replies"}

\* the registered tools whose signature has no session_id parameter
SessionLess == {"find_web_resources", "vergelijk_opties", "geef_denkvraag",
                "find_external_organization", "present_tool_choices"}

\* function_tool's "required": the parameters without a default, session_id
\* left out, in signature order
Required(name) ==
    CASE name \in {"add_item", "remove_item"} -> <<"item_type", "name">>
      [] name = "update_item" -> <<"item_type", "old_name", "new_name">>
      [] name = "log_answer" -> <<"answer">>
      [] name = "update_question" -> <<"old_question", "new_question">>
      [] name = "remove_question" -> <<"question_text">>
      [] name = "update_answer" -> <<"question_text", "new_answer">>
      [] name = "offer_choices" -> <<"choice_type">>
      [] name = "propose_quick_replies" -> <<"replies">>
      [] name = "find_web_resources" -> <<"topic">>
      [] name = "vergelijk_opties" -> <<"options">>
      [] name = "geef_denkvraag" -> <<"theme">>
      [] name = "find_external_organization" -> <<"keyword">>
      [] name = "present_tool_choices" -> <<"choices">>
      [] OTHER -> <<>>

\* the parameters with a default
Defaulted(name) ==
    CASE name = "add_item" -> {"theme_context", "is_custom"}
      [] name \in {"remove_item", "update_item", "offer_choices"} -> {"theme_context"}
      [] name = "genereer_plan_tekst" -> {"format"}
      [] name = "find_web_resources" -> {"depth"}
      [] OTHER -> {}

(***************************************************************************)
(* json.loads of call.function.arguments.  The text is scanned as the      *)
(* decoder of the json module scans it; positions count from 0 as in       *)
(* JSONDecodeError.pos.  A scan gives the position after the value, or the *)
(* message and position of the JSONDecodeError.                            *)
(***************************************************************************)
\* s[i:i+1]
At(s, i) == IF i < Len(s) THEN Char(s, i + 1) ELSE ""

\* s.startswith(word, i)
StartsAt(s, i, word) == i + Len(word) <= Len(s) /\ SubSeq(s, i + 1, i + Len(word)) = word

IsDigit(ch) == ch \in CharsOf("0123456789")

IsHexDigit(ch) == ch \in CharsOf("0123456789abcdefABCDEF")

\* the characters below 0x20 that the modelled texts can hold
IsControl(ch) == ch \in {"\t", "\n", "\r", "\f"}

Scanned(end) == [error |-> "", end |-> end]

JSONDecodeError(message, pos) == [error |-> message, end |-> pos]

\* WHITESPACE.match(s, i).end()
SkipSpace(s, i) ==
    CHOOSE j \in i..Len(s) : ~IsSpace(At(s, j)) /\ \A h \in i..(j - 1) : IsSpace(At(s, h))

\* the end of the digits from position i
DigitsEnd(s, i) ==
    CHOOSE j \in i..Len(s) : ~IsDigit(At(s, j)) /\ \A h \in i..(j - 1) : IsDigit(At(s, h))

\* the end of -?(0|[1-9]\d*) at position i, or i when there is no match
IntegerEnd(s, i) ==
    LET a == IF At(s, i) = "-" THEN i + 1 ELSE i
        b == IF At(s, a) = "0" THEN a + 1
             ELSE IF IsDigit(At(s, a)) THEN DigitsEnd(s, a)
             ELSE a
    IN  IF b = a THEN i ELSE b

\* the end of the number at position i: the integer, then (\.\d+)? and
\* ([eE][-+]?\d+)?
NumberEnd(s, i) ==
    LET b == IntegerEnd(s, i)
        c == IF At(s, b) = "." /\ IsDigit(At(s, b + 1)) THEN DigitsEnd(s, b + 1) ELSE b
        d == IF At(s, c) \in {"e", "E"}
             THEN IF At(s, c + 1) \in {"+", "-"} THEN c + 2 ELSE c + 1
             ELSE c
    IN  IF b = i THEN i
        ELSE IF d > c /\ IsDigit(At(s, d)) THEN DigitsEnd(s, d)
        ELSE c

\* F(x), with x evaluated once
With(x, F(_)) == CHOOSE r \in {F(v) : v \in {x}} : TRUE

RECURSIVE scanstring(_, _, _)
\* the string that opens at position begin, read up to position i
scanstring(s, begin, i) ==
    With(<<At(s, i), At(s, i + 1)>>, LAMBDA c :
        IF c[1] = "" THEN JSONDecodeError("Unterminated string starting at", begin)
        ELSE IF c[1] = "\"" THEN Scanned(i + 1)
        ELSE IF IsControl(c[1]) THEN JSONDecodeError("Invalid control character at", i)
        ELSE IF c[1] # "\\" THEN scanstring(s, begin, i + 1)
        ELSE IF c[2] = "" THEN JSONDecodeError("Unterminated string starting at", begin)
        ELSE IF c[2] = "u"
        THEN IF At(s, i + 6) # "" /\ \A h \in (i + 2)..(i + 5) : IsHexDigit(At(s, h))
             THEN scanstring(s, begin, i + 6)
             ELSE JSONDecodeError("Invalid \\uXXXX escape", i + 1)
        ELSE IF c[2] \in CharsOf("\"\\/bfnrt") THEN scanstring(s, begin, i + 2)
        ELSE JSONDecodeError("Invalid \\escape", i))

RECURSIVE scan_once(_, _)
RECURSIVE ObjectPairs(_, _)
RECURSIVE ArrayItems(_, _)

\* the loop of JSONObject, from the position after the quote that opens a
\* key: the key, ":", the value, then "}" or "," and the next key
ObjectPairs(s, i) ==
    With(scanstring(s, i - 1, i), LAMBDA key :
        IF key.error # "" THEN key
        ELSE With(SkipSpace(s, key.end), LAMBDA colon :
        IF At(s, colon) # ":" THEN JSONDecodeError("Expecting ':' delimiter", colon)
        ELSE With(scan_once(s, SkipSpace(s, colon + 1)), LAMBDA value :
        IF value.error # "" THEN value
        ELSE With(SkipSpace(s, value.end), LAMBDA next :
        IF At(s, next) = "}" THEN Scanned(next + 1)
        ELSE IF At(s, next) # "," THEN JSONDecodeError("Expecting ',' delimiter", next)
        ELSE With(SkipSpace(s, next + 1), LAMBDA k :
        IF At(s, k) # "\""
        THEN JSONDecodeError("Expecting property name enclosed in double quotes", k)
        ELSE ObjectPairs(s, k + 1))))))

\* the object whose brace is before position i
JSONObject(s, i) ==
    With(SkipSpace(s, i), LAMBDA k :
        IF At(s, k) = "}" THEN Scanned(k + 1)
        ELSE IF At(s, k) # "\""
        THEN JSONDecodeError("Expecting property name enclosed in double quotes", k)
        ELSE ObjectPairs(s, k + 1))

\* the loop of JSONArray, from the position of a value: the value, then "]"
\* or "," and the next value
ArrayItems(s, i) ==
    With(scan_once(s, i), LAMBDA value :
        IF value.error # "" THEN value
        ELSE With(SkipSpace(s, value.end), LAMBDA next :
        IF At(s, next) = "]" THEN Scanned(next + 1)
        ELSE IF At(s, next) # "," THEN JSONDecodeError("Expecting ',' delimiter", next)
        ELSE With(SkipSpace(s, next + 1), LAMBDA k : ArrayItems(s, k))))

\* the array whose bracket is before position i
JSONArray(s, i) ==
    With(SkipSpace(s, i), LAMBDA k :
        IF At(s, k) = "]" THEN Scanned(k + 1) ELSE ArrayItems(s, k))

\* the value at position i; StopIteration becomes "Expecting value" in every
\* caller
scan_once(s, i) ==
    With(At(s, i), LAMBDA c :
        IF c = "\"" THEN scanstring(s, i, i + 1)
        ELSE IF c = "{" THEN JSONObject(s, i + 1)
        ELSE IF c = "[" THEN JSONArray(s, i + 1)
        ELSE IF StartsAt(s, i, "null") \/ StartsAt(s, i, "true") THEN Scanned(i + 4)
        ELSE IF StartsAt(s, i, "false") THEN Scanned(i + 5)
        ELSE IF StartsAt(s, i, "NaN") THEN Scanned(i + 3)
        ELSE IF StartsAt(s, i, "Infinity") THEN Scanned(i + 8)
        ELSE IF StartsAt(s, i, "-Infinity") THEN Scanned(i + 9)
        ELSE IF NumberEnd(s, i) > i THEN Scanned(NumberEnd(s, i))
        ELSE JSONDecodeError("Expecting value", i))

\* JSONDecoder.decode: one value between whitespace and nothing after it
json_loads(s) ==
    With(scan_once(s, SkipSpace(s, 0)), LAMBDA value :
        IF value.error # "" THEN value
        ELSE IF SkipSpace(s, value.end) # Len(s)
        THEN JSONDecodeError("Extra data", SkipSpace(s, value.end))
        ELSE Scanned(Len(s)))

\* the positions, from 1, of the newlines before position pos
NewlinesBefore(s, pos) == {n \in 1..pos : Char(s, n) = "\n"}

\* str(e) of a JSONDecodeError: "%s: line %d column %d (char %d)"
ErrMsg(s, e) ==
    LET newlines == NewlinesBefore(s, e.end)
        colno == IF newlines = {} THEN e.end + 1
                 ELSE e.end - (CHOOSE n \in newlines : \A o \in newlines : o <= n) + 1
    IN  e.error \o ": line " \o ToString(Cardinality(newlines) + 1)
                \o " column " \o ToString(colno)
                \o " (char " \o ToString(e.end) \o ")"

\* type(json.loads(s)).__name__ for a text that json.loads accepts
TypeName(s) ==
    LET i == SkipSpace(s, 0)
        c == At(s, i)
    IN  IF c = "{" THEN "dict"
        ELSE IF c = "[" THEN "list"
        ELSE IF c = "\"" THEN "str"
        ELSE IF c \in {"t", "f"} THEN "bool"
        ELSE IF c = "n" THEN "NoneType"
        ELSE IF IntegerEnd(s, i) > i /\ NumberEnd(s, i) = IntegerEnd(s, i) THEN "int"
        ELSE "float"

(***************************************************************************)
(* call.function.arguments is JSON text.  A text that json.loads decodes   *)
(* to an object is given decoded, as the dict that json.loads returns: its *)
(* keys in the order of the text, and the value of each key.  Any other    *)
(* text is given raw.                                                      *)
(***************************************************************************)
Obj(keys, vals) == [keys |-> keys, vals |-> vals]

Raw(text) == [raw |-> text]

IsRaw(arguments) == "raw" \in DOMAIN arguments

JsonLoadsRaises(arguments) == IsRaw(arguments) /\ json_loads(arguments.raw).error # ""

\* str(e) of the json.JSONDecodeError
JsonErrorText(arguments) == ErrMsg(arguments.raw, json_loads(arguments.raw))

\* the module of the tools, as the application is imported (app:app)
ModuleName == "app"

\* fn(session_id=sid, **args) with args that is no dict
NotAMapping(args) == IsRaw(args) /\ TypeName(args.raw) # "dict"

\* args has a key session_id of its own
SessionIdTwice(args) == \E i \in 1..Len(args.keys) : args.keys[i] = "session_id"

Missing(name, args) == SelectSeq(Required(name), LAMBDA p : p \notin Range(args.keys))

\* the keys that are no parameter of the tool, in the order of the call
Unexpected(name, args) ==
    SelectSeq(args.keys, LAMBDA k : k \notin Range(Required(name)) \cup Defaulted(name))

\* fn(session_id=sid, **args) raises TypeError before the body of fn runs
ArgumentMismatch(name, args) ==
    \/ NotAMapping(args)
    \/ SessionIdTwice(args)
    \/ name \in SessionLess
    \/ Unexpected(name, args) # <<>>
    \/ Missing(name, args) # <<>>

Quoted(p) == "'" \o p \o "'"

\* str(e) of that TypeError
ArgumentErrorText(name, args) ==
    IF NotAMapping(args)
    THEN ModuleName \o "." \o name \o "() argument after ** must be a mapping, not "
                    \o TypeName(args.raw)
    ELSE IF SessionIdTwice(args)
    THEN ModuleName \o "." \o name
                    \o "() got multiple values for keyword argument 'session_id'"
    ELSE IF name \in SessionLess
    THEN name \o "() got an unexpected keyword argument 'session_id'"
    ELSE IF Unexpected(name, args) # <<>>
    THEN name \o "() got an unexpected keyword argument " \o Quoted(Unexpected(name, args)[1])
    ELSE LET m == Missing(name, args)
         IN  IF Len(m) = 1
             THEN name \o "() missing 1 required positional argument: " \o Quoted(m[1])
             ELSE IF Len(m) = 2
             THEN name \o "() missing 2 required positional arguments: "
                       \o Quoted(m[1]) \o " and " \o Quoted(m[2])
             ELSE name \o "() missing 3 required positional arguments: "
                       \o Quoted(m[1]) \o ", " \o Quoted(m[2]) \o ", and " \o Quoted(m[3])

ExceptionText(e) == "Error executing tool: " \o e

NotFoundText(name) == "Error: tool '" \o name \o "' not found."

\* args.get(p, default)
Arg(args, p, default) == IF p \in DOMAIN args.vals THEN args.vals[p] ELSE default

RECURSIVE JoinFrom(_, _, _)
JoinFrom(sep, strings, i) ==
    IF i > Len(strings) THEN ""
    ELSE IF i = Len(strings) THEN strings[i]
    ELSE strings[i] \o sep \o JoinFrom(sep, strings, i + 1)

\* sep.join(strings)
Join(sep, strings) == JoinFrom(sep, strings, 1)

\* the tool neither loads nor saves the session
QuickRepliesProposed(replies) ==
    /\ op' = [tool |-> "propose_quick_replies", replies |-> replies]
    /\ Tick
    /\ ret' = "Quick replies voorgesteld: " \o Join(", ", replies)

propose_quick_replies(replies) ==
    /\ QuickRepliesProposed(replies)
    /\ UNCHANGED <<stage, themes, topics, qa_items, qa_queue, current_question>>

\* What the completion call of save_plan_summary gives: a message with a
\* text, a message without content, or an exception.
SummaryOutcomes == {[content |-> " - bevallen in bad\n"], None, [raises |-> "service down"]}

SummaryFailed(e) == "(samenvatting mislukt: " \o e \o ")"

\* resp.choices[0].message.content.strip(), or the text of the except branch
SummaryText(outcome) ==
    IF "content" \in DOMAIN outcome THEN Strip(outcome.content)
    ELSE IF "raises" \in DOMAIN outcome THEN SummaryFailed(outcome.raises)
    ELSE SummaryFailed("'NoneType' object has no attribute 'strip'")

\* save_plan_summary from its INSERT on: the row with the text is inserted,
\* the session is not saved
save_plan_summary(text) ==
    /\ op' = [tool |-> "save_plan_summary"]
    /\ Tick
    /\ summaries' = Append(summaries, text)
    /\ ret' = "summary_saved"
    /\ UNCHANGED <<stage, themes, topics, qa_items, qa_queue, current_question>>

\* The body of the tool, for the tools that the modelled responses call.
ToolBody(name, args) ==
    CASE name = "add_item" ->
             add_item(args.vals.item_type, args.vals.name, Arg(args, "theme_context", NoContext),
                      Arg(args, "is_custom", FALSE))
      [] name = "remove_item" ->
             remove_item(args.vals.item_type, args.vals.name, Arg(args, "theme_context", NoContext))
      [] name = "update_item" ->
             update_item(args.vals.item_type, args.vals.old_name, args.vals.new_name,
                         Arg(args, "theme_context", NoContext))
      [] name = "start_qa_session" -> start_qa_session
      [] name = "get_next_question" -> get_next_question
      [] name = "log_answer" -> log_answer(args.vals.answer)
      [] name = "update_question" -> update_question(args.vals.old_question, args.vals.new_question)
      [] name = "remove_question" -> remove_question(args.vals.question_text)
      [] name = "update_answer" -> update_answer(args.vals.question_text, args.vals.new_answer)
      [] name = "propose_quick_replies" -> propose_quick_replies(args.vals.replies)

(***************************************************************************)
(* History entries and replies                                             *)
(***************************************************************************)
\* None and "" are both falsy; the loop reads content only as "content or ..."
NoContent == ""

NoReply == ""

RetFallback == "(max turns bereikt)"
RetNoAnswer == "(geen antwoord)"

EmptyPayload == [assistant_reply |-> "(leeg bericht)"]
ErrorPayload == [error |-> "Er is een interne serverfout opgetreden.", status |-> 500]

\* json.dumps of the three choices of the guardrail; the text is not interpreted
MenuJson == "MENU"

UserEntry(text) == [role |-> "user", content |-> text]

\* msg.model_dump(exclude_unset=True)
Dump(m) == [role |-> "assistant", content |-> m.content, tool_calls |-> m.tool_calls]

ToolEntry(call, result) ==
    [tool_call_id |-> call.id, role |-> "tool", name |-> call.function.name,
     content |-> result]

\* str(uuid.uuid4()): a fresh identifier; a turn injects at most once
Uuid == "uuid4"

InjectedEntry(replies) ==
    [role |-> "assistant",
     tool_calls |-> <<[id |-> Uuid,
                       function |-> [name |-> "propose_quick_replies",
                                     arguments |-> Obj(<<"replies">>, [replies |-> replies])]]>>]

ContentOr(m, default) == IF m.content = NoContent THEN default ELSE m.content

IsQuickReplies(call) == call.function.name = "propose_quick_replies"

(***************************************************************************)
(* _auto_quick_replies: the replies to inject, or <<>> for None            *)
(***************************************************************************)
SKIP_STAGES == {THEME_SELECTION, TOPIC_SELECTION, COMPLETED}

\* the same without the test on the question mark
auto_quick_replies_any_text(st_stage, assistant_msg) ==
    IF \/ \E i \in 1..Len(assistant_msg.tool_calls) : IsQuickReplies(assistant_msg.tool_calls[i])
       \/ st_stage \in SKIP_STAGES
    THEN <<>>
    ELSE QuickReplies(assistant_msg.content)
auto_quick_replies(st_stage, assistant_msg) ==
    IF \/ \E i \in 1..Len(assistant_msg.tool_calls) : IsQuickReplies(assistant_msg.tool_calls[i])
       \/ st_stage \in SKIP_STAGES
       \/ ~EndsWithQuestionMark(Strip(assistant_msg.content))
    THEN <<>>
    ELSE QuickReplies(assistant_msg.content)

(***************************************************************************)
(* build_payload                                                           *)
(***************************************************************************)
SuggestedReplies(h) ==
    LET last_message == h[Len(h)]
    IN  IF /\ last_message.role = "assistant"
           /\ "tool_calls" \in DOMAIN last_message
           /\ last_message.tool_calls # <<>>
        THEN LET quick == SelectSeq(last_message.tool_calls,
                                    LAMBDA c : /\ IsQuickReplies(c)
                                               /\ ~JsonLoadsRaises(c.function.arguments))
             IN  IF quick = <<>> THEN <<>>
                 ELSE Arg(quick[1].function.arguments, "replies", <<>>)
        ELSE <<>>

build_payload(r) ==
    [assistant_reply |-> r, stage |-> stage,
     plan |-> [themes |-> themes, topics |-> topics, qa_items |-> qa_items],
     suggested_replies |-> SuggestedReplies(history)]

(***************************************************************************)
(* One request to the /agent route: agent_route and run_main_agent_loop.   *)
(* The steps of one request run in program order; history is the persisted *)
(* st["history"], the message and the tool results of the current round    *)
(* are in memory until the round is saved.                                 *)
(***************************************************************************)
\* for turn in range(5)
RoundsLeftOffByOne(r) == r <= MAX_TURNS
RoundsLeft(r) == r < MAX_TURNS

\* what the session's history is after the completion call raised
HistoryWithApology(h) == Append(h, [role |-> "assistant", content |-> ErrorPayload.error])
HistoryAfterLLMFailure(h) == h

\* the try/except around one tool call: the for loop over the calls goes on
AfterToolExceptionAborts == "done"
AfterToolException == "tools"

\* SHORT-CIRCUIT of step 7
ShortCircuitOnAnyQuickReplies(injected, m) ==
    injected \/ \E i \in 1..Len(m.tool_calls) : IsQuickReplies(m.tool_calls[i])
ShortCircuit(injected, m) ==
    injected \/ (m.tool_calls # <<>> /\ IsQuickReplies(m.tool_calls[Len(m.tool_calls)]))

\* step 4 of the round: st = get_session(sid), the session as the tools of
\* the round saved it, replaces the copy the loop held during the round
ReloadSkipped(persisted, memory) == memory
Reload(persisted, memory) == persisted

\* agent_route up to the call of the loop, and the guardrail of the loop
StartTurn(message) ==
    /\ pc = "idle"
    /\ LET text == Strip(message)
       IN  IF text = ""
           THEN /\ payload' = EmptyPayload
                /\ pc' = "done"
                /\ UNCHANGED <<history, reply, st>>
           ELSE /\ history' = Append(history, UserEntry(text))
                /\ st' = Session
                /\ IF detect_sentiment(text) = "needs_menu"
                   THEN IF ArgumentMismatch("present_tool_choices",
                                             Obj(<<"choices">>, [choices |-> MenuJson]))
                        THEN /\ payload' = ErrorPayload
                             /\ pc' = "done"
                             /\ UNCHANGED reply
                        ELSE /\ reply' = MenuJson
                             /\ pc' = "returned"
                             /\ UNCHANGED payload
                   ELSE /\ pc' = "llm"
                        /\ UNCHANGED <<reply, payload>>
    /\ UNCHANGED <<toolvars, round, msg, todo, tool_results, summary, turns, summaries>>

\* the tool calls of a response get the ids the service chose for them
WithIds(response, k) ==
    [content |-> response.content,
     tool_calls |-> [i \in 1..Len(response.tool_calls) |->
                        [id |-> <<k, i>>, function |-> response.tool_calls[i]]]]

\* client.chat.completions.create answers
LLMResponds(response) ==
    /\ pc = "llm"
    /\ RoundsLeft(round)
    /\ round' = round + 1
    /\ msg' = WithIds(response, round + 1)
    /\ todo' = msg'.tool_calls
    /\ tool_results' = <<>>
    /\ pc' = "tools"
    /\ UNCHANGED <<toolvars, history, reply, payload, st, summary, turns, summaries>>

\* client.chat.completions.create raises: the except of agent_route answers
LLMFails ==
    /\ pc = "llm"
    /\ RoundsLeft(round)
    /\ round' = round + 1
    /\ history' = HistoryAfterLLMFailure(history)
    /\ payload' = ErrorPayload
    /\ pc' = "done"
    /\ UNCHANGED <<toolvars, msg, todo, tool_results, reply, st, summary, turns, summaries>>

\* the for loop is exhausted
MaxTurnsReached ==
    /\ pc = "llm"
    /\ ~RoundsLeft(round)
    /\ reply' = RetFallback
    /\ pc' = "returned"
    /\ UNCHANGED <<toolvars, history, round, msg, todo, tool_results, payload, st, summary,
                   turns, summaries>>

\* one iteration of "for call in (msg.tool_calls or [])"
ExecTool ==
    /\ pc = "tools"
    /\ todo # <<>>
    /\ LET call == Head(todo)
           name == call.function.name
           args == call.function.arguments
       IN  IF JsonLoadsRaises(args)
           THEN /\ tool_results' = Append(tool_results,
                                          ToolEntry(call, ExceptionText(JsonErrorText(args))))
                /\ pc' = AfterToolException
                /\ UNCHANGED toolvars
           ELSE IF name \notin TOOL_MAP
           THEN /\ tool_results' = Append(tool_results, ToolEntry(call, NotFoundText(name)))
                /\ pc' = "tools"
                /\ UNCHANGED toolvars
           ELSE IF ArgumentMismatch(name, args)
           THEN /\ tool_results' = Append(tool_results,
                         ToolEntry(call, ExceptionText(ArgumentErrorText(name, args))))
                /\ pc' = AfterToolException
                /\ UNCHANGED toolvars
           ELSE /\ ToolBody(name, args)
                /\ tool_results' = Append(tool_results, ToolEntry(call, ret'))
                /\ pc' = "tools"
    /\ todo' = Tail(todo)
    /\ UNCHANGED <<history, round, msg, reply, payload, st, summary, turns, summaries>>

\* steps 4 to 8 of the round: merge, inject, save, return or go on
EndRound ==
    /\ pc = "tools"
    /\ todo = <<>>
    /\ LET merged == (history \o <<Dump(msg)>>) \o tool_results
           fresh == Reload(Session, st)
           replies == auto_quick_replies(fresh.stage, msg)
           injected == replies # <<>>
       IN  /\ st' = fresh
           /\ stage' = fresh.stage
           /\ themes' = fresh.themes
           /\ topics' = fresh.topics
           /\ qa_items' = fresh.qa_items
           /\ qa_queue' = fresh.qa_queue
           /\ current_question' = fresh.current_question
           /\ IF injected
              THEN /\ QuickRepliesProposed(replies)
                   /\ history' = Append(merged, InjectedEntry(replies))
              ELSE /\ history' = merged
                   /\ UNCHANGED <<op, ret, calls>>
           /\ IF ShortCircuit(injected, msg) \/ msg.tool_calls = <<>>
              THEN /\ reply' = ContentOr(msg, RetNoAnswer)
                   /\ pc' = "returned"
              ELSE /\ pc' = "llm"
                   /\ UNCHANGED reply
    /\ UNCHANGED <<round, msg, todo, tool_results, payload, summary, turns, summaries>>

\* agent_route after the loop returned: final_st = get_session(sid); the
\* answer of the request, or the call of save_plan_summary when the session
\* is completed
Respond ==
    /\ pc = "returned"
    /\ IF stage = COMPLETED
       THEN /\ pc' = "summary_load"
            /\ UNCHANGED payload
       ELSE /\ payload' = build_payload(reply)
            /\ pc' = "done"
    /\ UNCHANGED <<toolvars, history, round, msg, todo, tool_results, reply, st, summary,
                   turns, summaries>>

\* st=get_session(session_id) of save_plan_summary; the completion call is
\* next
SummaryLoad ==
    /\ pc = "summary_load"
    /\ pc' = "summary_call"
    /\ UNCHANGED <<toolvars, history, round, msg, todo, tool_results, reply, payload, st,
                   summary, turns, summaries>>

\* the completion call of save_plan_summary returns or raises
SummaryCall ==
    /\ pc = "summary_call"
    /\ \E outcome \in SummaryOutcomes : summary' = SummaryText(outcome)
    /\ pc' = "summary_insert"
    /\ UNCHANGED <<toolvars, history, round, msg, todo, tool_results, reply, payload, st,
                   turns, summaries>>

\* the INSERT of save_plan_summary, and agent_route answers with the payload
\* of final_st
SummaryInsert ==
    /\ pc = "summary_insert"
    /\ save_plan_summary(summary)
    /\ summary' = ""
    /\ payload' = build_payload(reply)
    /\ pc' = "done"
    /\ UNCHANGED <<history, round, msg, todo, tool_results, reply, st, turns>>

\* the next POST /agent of the same session: a request starts with locals of
\* its own, the session is what the previous request saved
NextRequest ==
    /\ pc = "done"
    /\ pc' = "idle"
    /\ round' = 0
    /\ msg' = None
    /\ todo' = <<>>
    /\ tool_results' = <<>>
    /\ reply' = NoReply
    /\ payload' = None
    /\ st' = None
    /\ UNCHANGED <<toolvars, history, summary, turns, summaries>>

(***************************************************************************)
(* Loop specification: one request of a new session.  The user message and *)
(* every response of the completion service are inputs.                    *)
(***************************************************************************)
UserMessages == {"  ", "weet niet", "Ik wil een geboorteplan maken"}

Plain(content) == [content |-> content, tool_calls |-> <<>>]

Calling(content, tool_calls) == [content |-> content, tool_calls |-> tool_calls]

Call(name, arguments) == [name |-> name, arguments |-> arguments]

\* the text "{}"
NoArgs == Obj(<<>>, <<>>)

YesNo == Obj(<<"replies">>, [replies |-> <<"Ja", "Nee">>])

\* arguments that the service cut off before the closing brace
TruncatedJson == "{\"item_type\": \"theme\", \"name\": \"x\""

ResponseMenu ==
    <<Plain("Klaar."),
      Calling(NoContent, <<Call("add_item", Obj(<<"item_type", "name">>,
                                             [item_type |-> "theme", name |-> DEFAULT_THEMES[1]])),
                           Call("add_item", Obj(<<"item_type", "name", "theme_context">>,
                                             [item_type |-> "topic", name |-> DEFAULT_TOPICS[1],
                                              theme_context |-> DEFAULT_THEMES[1]]))>>),
      Calling(NoContent, <<Call("start_qa_session", NoArgs)>>),
      Calling("Bad of bed?", <<Call("get_next_question", NoArgs)>>),
      Calling("Zeker?", <<Call("propose_quick_replies", YesNo)>>),
      Calling(NoContent, <<Call("add_item", Raw(TruncatedJson)),
                           Call("log_answer", NoArgs),
                           Call("find_web_resources", Obj(<<"topic">>, [topic |-> "pijnstilling"])),
                           Call("bestaat_niet", NoArgs),
                           Call("log_answer", Obj(<<"answer">>, [answer |-> "ja"]))>>),
      Calling("Zeker?", <<Call("propose_quick_replies", YesNo),
                          Call("get_next_question", NoArgs)>>),
      Plain("Goed? "),
      Calling(NoContent, <<Call("add_item", Obj(<<"item_type", "name", "is_custom">>,
                                             [item_type |-> "theme", name |-> DEFAULT_THEMES[2],
                                              is_custom |-> TRUE]))>>)>>

Responses == {ResponseMenu[i] : i \in {j \in 1..NumResponses : j <= Len(ResponseMenu)}}

NextLoop ==
    \/ \E m \in UserMessages : StartTurn(m)
    \/ \E r \in Responses : LLMResponds(r)
    \/ LLMFails
    \/ MaxTurnsReached
    \/ ExecTool
    \/ EndRound
    \/ Respond
    \/ SummaryLoad
    \/ SummaryCall
    \/ SummaryInsert

SpecLoop == Init /\ [][NextLoop]_vars

\* The steps of a request are the statements of one thread of control: a
\* step that is enabled is taken.
SpecLoopFair == SpecLoop /\ WF_vars(NextLoop)

(***************************************************************************)
(* Properties of the agent loop                                            *)
(***************************************************************************)
\* the responses of the completion service as they stand in the history
LLMResponsesOf(h) == SelectSeq(h, LAMBDA e : e.role = "assistant" /\ "content" \in DOMAIN e)

AllWithTools(responses) == \A i \in 1..Len(responses) : responses[i].tool_calls # <<>>

LoopReturned ==
    /\ pc \in {"returned", "summary_load", "summary_call", "summary_insert", "done"}
    /\ reply # NoReply

FiveToolResponses ==
    /\ LoopReturned
    /\ Len(LLMResponsesOf(history)) = MAX_TURNS
    /\ AllWithTools(LLMResponsesOf(history))

\* the last response has propose_quick_replies as its last call, or quick
\* replies were injected after it
LastResponseEndsTurn ==
    LET responses == LLMResponsesOf(history)
        last_calls == responses[Len(responses)].tool_calls
    IN  \/ last_calls # <<>> /\ IsQuickReplies(last_calls[Len(last_calls)])
        \/ "content" \notin DOMAIN history[Len(history)]

\* C17 as stated: the completion service is called at most 5 times in a
\* turn, and when all 5 responses contain tool invocations the reply is the
\* fixed fallback message.
C17_FallbackAfterFiveToolResponses ==
    /\ round <= MAX_TURNS
    /\ FiveToolResponses => reply = RetFallback

\* C17, amended: every turn terminates after at most 5 calls of the
\* completion service; when all 5 responses contain tool invocations the
\* reply is the fixed fallback message unless the fifth response ends the
\* turn itself (propose_quick_replies as its last invocation, or injected
\* quick replies), and with the fallback message the stage, the plan and the
\* question queue are not changed any more.
C17_BoundedRoundsThenFallback ==
    /\ [](round <= MAX_TURNS)
    /\ []((FiveToolResponses /\ ~LastResponseEndsTurn) => reply = RetFallback)
    /\ []((FiveToolResponses /\ LastResponseEndsTurn) =>
              reply = ContentOr(LLMResponsesOf(history)[MAX_TURNS], RetNoAnswer))
    /\ [][reply' = RetFallback =>
              UNCHANGED <<stage, plan, qa_queue, current_question>>]_vars
    /\ <>(pc = "done")

C17_Witness ==
    /\ pc = "done"
    /\ round = MAX_TURNS
    /\ FiveToolResponses
    /\ reply = RetFallback
    /\ payload = build_payload(RetFallback)

\* the step that ends a round: merge, inject, save
EndsRound == pc = "tools" /\ todo = <<>> /\ pc' # "tools"

\* the history saved by the round holds the response and, in the order of
\* the invocations, one result for each of them
ResultsSaved ==
    /\ Len(history') >= Len(history) + 1 + Len(msg.tool_calls)
    /\ SubSeq(history', 1, Len(history)) = history
    /\ history'[Len(history) + 1] = Dump(msg)
    /\ \A i \in 1..Len(msg.tool_calls) :
           LET entry == history'[Len(history) + 1 + i]
           IN  /\ entry.role = "tool"
               /\ entry.tool_call_id = msg.tool_calls[i].id
               /\ entry.name = msg.tool_calls[i].function.name

QuickRepliesLast ==
    msg.tool_calls # <<>> /\ IsQuickReplies(msg.tool_calls[Len(msg.tool_calls)])

QuickRepliesInjected ==
    /\ Len(history') = Len(history) + 2 + Len(msg.tool_calls)
    /\ history'[Len(history')] = InjectedEntry(QuickReplies(msg.content))

InjectionCase ==
    /\ stage = QA_SESSION
    /\ EndsWithQuestionMark(Strip(msg.content))
    /\ \A i \in 1..Len(msg.tool_calls) : ~IsQuickReplies(msg.tool_calls[i])

\* C18 as stated: the text of a response is returned as the reply only when
\* the response has no tool invocations; a response with tool invocations
\* has its results saved and the loop goes on to a further round.
C18_TextReplyOnlyWithoutTools ==
    [][EndsRound =>
          IF msg.tool_calls = <<>>
          THEN pc' = "returned" /\ reply' = ContentOr(msg, RetNoAnswer)
          ELSE ResultsSaved /\ pc' = "llm" /\ reply' = reply]_vars

\* C18, amended: every response has all its tool invocations executed and
\* their results saved; its text is returned as the reply when it has no
\* tool invocations, when its last invocation is propose_quick_replies, or
\* when quick replies are injected after it (stage QA_SESSION, text ending
\* in "?", no propose_quick_replies among its invocations); any other
\* response is followed by a further round while rounds are left.
C18_TextReplyEndsTurnElseNextRound ==
    [][EndsRound =>
          /\ ResultsSaved
          /\ QuickRepliesInjected <=> InjectionCase
          /\ IF msg.tool_calls = <<>> \/ QuickRepliesLast \/ InjectionCase
             THEN pc' = "returned" /\ reply' = ContentOr(msg, RetNoAnswer)
             ELSE pc' = "llm" /\ reply' = reply]_vars

C18_Witness ==
    /\ pc = "returned"
    /\ msg # None
    /\ Len(msg.tool_calls) = 1
    /\ ~IsQuickReplies(msg.tool_calls[1])
    /\ reply = msg.content
    /\ history[Len(history)] = InjectedEntry(<<"Bad", "Bed">>)
    /\ history[Len(history) - 1].role = "tool"
    /\ history[Len(history) - 1].tool_call_id = msg.tool_calls[1].id

\* the invocation raises inside the try, or names no registered tool
Faulty(call) ==
    \/ JsonLoadsRaises(call.function.arguments)
    \/ call.function.name \notin TOOL_MAP
    \/ ArgumentMismatch(call.function.name, call.function.arguments)

\* C19: an invocation that raises (unparseable arguments, argument
\* mismatch) or names an unknown tool gets an error string as its result; it
\* changes nothing in the session, the remaining invocations of the response
\* stay to be executed, every invocation has a result when the round ends,
\* and no step of the tool phase aborts the turn.
C19_ToolFaultBecomesResult ==
    [][/\ (pc = "tools" /\ todo # <<>> /\ Faulty(Head(todo))) =>
             /\ Len(tool_results') = Len(tool_results) + 1
             /\ tool_results'[Len(tool_results')].tool_call_id = Head(todo).id
             /\ tool_results'[Len(tool_results')].role = "tool"
             /\ IsError(tool_results'[Len(tool_results')].content)
             /\ todo' = Tail(todo)
             /\ pc' = "tools"
             /\ UNCHANGED <<stage, plan, qa_queue, current_question, history>>
       /\ pc = "tools" => (pc' \in {"tools", "llm", "returned"} /\ payload' = payload)
       /\ EndsRound => (Len(tool_results) = Len(msg.tool_calls) /\ ResultsSaved)]_vars

\* a saved round in which three invocations failed and the invocation after
\* them was executed, followed by a further round
C19_Witness ==
    /\ pc = "tools"
    /\ round >= 2
    /\ \E i \in 1..(Len(history) - 4) :
           /\ history[i].role = "tool"
           /\ history[i].content =
                  ExceptionText("Expecting ',' delimiter: line 1 column 35 (char 34)")
           /\ history[i + 1].content =
                  ExceptionText("log_answer() missing 1 required positional argument: 'answer'")
           /\ history[i + 2].content =
                  ExceptionText("find_web_resources() got an unexpected keyword argument 'session_id'")
           /\ history[i + 3].content = "Error: tool 'bestaat_niet' not found."
           /\ history[i + 4].name = "log_answer"
           /\ history[i + 4].content = RetSaved
    /\ qa_items # <<>>

ToolEntriesOf(h) == SelectSeq(h, LAMBDA e : e.role = "tool")

CallIdsOf(responses) ==
    UNION {{responses[i].tool_calls[j].id : j \in 1..Len(responses[i].tool_calls)} :
           i \in 1..Len(responses)}

\* the history holds the user message and the complete rounds 1..k: each
\* response with one result for each of its invocations, and nothing else
HoldsCompleteRounds(h, k) ==
    /\ h[2].role = "user"
    /\ Len(LLMResponsesOf(h)) = k
    /\ Len(ToolEntriesOf(h)) = Cardinality(CallIdsOf(LLMResponsesOf(h)))
    /\ {ToolEntriesOf(h)[i].tool_call_id : i \in 1..Len(ToolEntriesOf(h))}
           = CallIdsOf(LLMResponsesOf(h))
    /\ Len(h) = 2 + k + Len(ToolEntriesOf(h))

\* the completion call of the round raises
CompletionFails == pc = "llm" /\ pc' = "done"

\* C20: when the completion call of round k fails, the request is answered
\* with the fixed error reply and nothing is persisted after the failure:
\* stage, plan, queue, current question and history stay as saved before
\* the call, the history being the user message and the rounds 1..k-1.
C20_LLMFailureKeepsPersistedState ==
    [][CompletionFails =>
          /\ payload' = ErrorPayload
          /\ reply' = NoReply
          /\ UNCHANGED <<stage, plan, qa_queue, current_question, history>>
          /\ HoldsCompleteRounds(history', round' - 1)]_vars

C20_Witness ==
    /\ pc = "done"
    /\ payload = ErrorPayload
    /\ round = 3
    /\ HoldsCompleteRounds(history, 2)
    /\ stage = QA_SESSION
    /\ qa_queue # <<>>

(***************************************************************************)
(* History specification: several requests of one session, one after the   *)
(* other.  The completion service answers with a plain text or with five   *)
(* tool calls, so that the history grows by up to 31 entries per request.  *)
(***************************************************************************)
HistoryResponses == {ResponseMenu[1], ResponseMenu[6]}

RequestsSoFar == Len(SelectSeq(history, LAMBDA e : e.role = "user"))

NextHistory ==
    \/ StartTurn("Ik wil een geboorteplan maken")
    \/ \E r \in HistoryResponses : LLMResponds(r)
    \/ MaxTurnsReached
    \/ ExecTool
    \/ EndRound
    \/ Respond
    \/ RequestsSoFar < MaxRequests /\ NextRequest

SpecHistory == Init /\ [][NextHistory]_vars

\* C21: whenever a turn starts with more than 40 entries in the history, the
\* history is cut down to its most recent 20 entries before the first
\* completion call of the turn (21 with the user message of the turn).  The
\* session has no summary field that the second half of the claim could be
\* stated about.
C21_HistoryCompactedAtTurnStart ==
    [][(pc = "idle" /\ Len(history) > 40 /\ pc' = "llm") => Len(history') <= 21]_vars

(***************************************************************************)
(* Properties of the answer of a request                                   *)
(***************************************************************************)
Answered == pc = "done" /\ "suggested_replies" \in DOMAIN payload

\* C22 as stated: the suggested replies of a turn are non-empty only if the
\* reply text is non-empty and its last character is a question mark; a
\* reply that does not end in "?" has no suggested replies; non-empty
\* suggested replies are exactly 2 labels.
C22_RepliesOnlyAfterQuestionMark ==
    Answered =>
        /\ payload.suggested_replies # <<>> =>
               /\ payload.assistant_reply # NoReply
               /\ EndsWithQuestionMark(payload.assistant_reply)
               /\ Len(payload.suggested_replies) = 2
        /\ ~EndsWithQuestionMark(payload.assistant_reply) =>
               payload.suggested_replies = <<>>

\* C22, amended: the suggested replies of a turn are non-empty only if the
\* reply text, with the whitespace around it stripped, is non-empty and ends
\* with a question mark; a reply that does not end so has no suggested
\* replies; non-empty suggested replies are exactly 2 labels.
C22_RepliesOnlyAfterStrippedQuestionMark ==
    Answered =>
        /\ payload.suggested_replies # <<>> =>
               /\ Strip(payload.assistant_reply) # NoReply
               /\ EndsWithQuestionMark(Strip(payload.assistant_reply))
               /\ Len(payload.suggested_replies) = 2
        /\ ~EndsWithQuestionMark(Strip(payload.assistant_reply)) =>
               payload.suggested_replies = <<>>

C22_Witness ==
    /\ Answered
    /\ payload.assistant_reply = "Bad of bed?"
    /\ payload.suggested_replies = <<"Bad", "Bed">>

(***************************************************************************)
(* Properties of renaming                                                  *)
(***************************************************************************)
\* the call just executed renamed a theme to the name of another theme
RenamedOntoTheme ==
    /\ op'.tool = "update_item" /\ op'.item_type = "theme"
    /\ op'.old_name # op'.new_name
    /\ op'.old_name \in ThemeNamesOf(themes)
    /\ op'.new_name \in ThemeNamesOf(themes)

\* C23: after any sequence of tool calls the theme names are pairwise
\* distinct, and renaming a theme to the name of another existing theme
\* neither discards nor merges the topics of that other theme.
C23_ThemeNamesStayUnique ==
    [][/\ NoDuplicates([i \in 1..Len(themes') |-> themes'[i].name])
       /\ RenamedOntoTheme =>
              /\ HasKey(topics, op'.new_name) => HasKey(topics', op'.new_name)
              /\ Get(topics', op'.new_name) = Get(topics, op'.new_name)]_vars

(***************************************************************************)
(* Properties of the guardrail                                             *)
(***************************************************************************)
\* st["history"][-1]["content"] as the loop reads it at its start
LastUserText(h) ==
    LET users == SelectSeq(h, LAMBDA e : e.role = "user")
    IN  users[Len(users)].content

\* the request that was answered is one the guardrail applies to
GuardrailTurn ==
    /\ pc = "done"
    /\ RequestsSoFar > 0
    /\ history[Len(history)].role = "user"
    /\ detect_sentiment(LastUserText(history)) = "needs_menu"

\* C24: a turn whose user message has fewer than 4 words or holds a vague
\* phrase completes normally: no completion call and no tool call is made,
\* and the route answers with the payload of the fixed JSON menu as the
\* reply, the stage and the plan.
C24_GuardrailAnswersWithMenu ==
    GuardrailTurn =>
        /\ round = 0
        /\ calls = 0
        /\ payload = build_payload(MenuJson)

(***************************************************************************)
(* Properties of propose_quick_replies called by the model                 *)
(***************************************************************************)
\* the response of the current round ends in a propose_quick_replies call
OwnQuickReplies == msg # None /\ QuickRepliesLast

\* replies=R of the last tool call of the response
OwnReplies == Arg(msg.tool_calls[Len(msg.tool_calls)].function.arguments, "replies", <<>>)

\* C25: a response whose last tool call is propose_quick_replies(replies=R)
\* ends the turn in its round (no further completion call follows it), and
\* the payload of the turn carries suggested_replies = R.
C25_OwnQuickRepliesReachPayload ==
    OwnQuickReplies =>
        /\ pc # "llm"
        /\ pc = "done" => /\ "suggested_replies" \in DOMAIN payload
                          /\ payload.suggested_replies = OwnReplies

(***************************************************************************)
(* Properties of the persisted history                                     *)
(***************************************************************************)
\* entry i of h records tool invocations
RecordsInvocations(h, i) ==
    /\ h[i].role = "assistant"
    /\ "tool_calls" \in DOMAIN h[i]
    /\ h[i].tool_calls # <<>>

\* entry i of h is followed by one tool-result entry per invocation id
HasItsResults(h, i) ==
    \A j \in 1..Len(h[i].tool_calls) :
        /\ i + j <= Len(h)
        /\ h[i + j].role = "tool"
        /\ h[i + j].tool_call_id = h[i].tool_calls[j].id

\* C26: in the persisted history, which is what the next round or turn
\* sends to the completion service, every assistant entry that records tool
\* invocations is followed by one tool-result entry for each of its
\* invocation ids.
C26_EveryInvocationHasResult ==
    \A i \in 1..Len(history) : RecordsInvocations(history, i) => HasItsResults(history, i)

(***************************************************************************)
(* Properties of the question round                                        *)
(***************************************************************************)
\* an answered question without its answer
Asked(qa) == [theme |-> qa.theme, topic |-> qa.topic, question |-> qa.question]

\* the number of places that hold question q: entries of the queue, the
\* current question, entries of the answered questions
Places(queue, current, items, q) ==
    Cardinality({i \in 1..Len(queue) : queue[i] = q})
    + (IF current = q THEN 1 ELSE 0)
    + Cardinality({i \in 1..Len(items) : Asked(items[i]) = q})

\* the questions that are queued, pending or answered
Tracked ==
    {qa_queue[i] : i \in 1..Len(qa_queue)}
    \cup (IF current_question = None THEN {} ELSE {current_question})
    \cup {Asked(qa_items[i]) : i \in 1..Len(qa_items)}

\* C27: no question is silently lost in the question round: a call of
\* get_next_question or log_answer leaves every question in as many of the
\* places qa_queue, current_question, qa_items as before; in particular
\* get_next_question while a current question is unanswered does not
\* discard that question.
C27_NoQuestionLost ==
    [][op'.tool \in {"get_next_question", "log_answer"} =>
          \A q \in Tracked :
              Places(qa_queue', current_question', qa_items', q)
                  = Places(qa_queue, current_question, qa_items, q)]_vars

(***************************************************************************)
(* Properties of the end-of-round save                                     *)
(***************************************************************************)
\* the pre-round history plus the response plus the results of the round
MergedHistory == (history \o <<Dump(msg)>>) \o tool_results

\* the save at the end of the round leaves the session as the tools left it
ToolStateKept == UNCHANGED <<stage, plan, qa_queue, current_question>>

\* C28 as stated: the state saved at the end of a round has stage, plan,
\* qa_queue and current_question as the tools of the round left them, and a
\* history equal to the pre-round history plus the assistant message plus
\* the tool results of the round.
C28_RoundSaveKeepsToolState ==
    [][EndsRound => ToolStateKept /\ history' = MergedHistory]_vars

\* C28, amended: the state saved at the end of a round has stage, plan,
\* qa_queue and current_question as the tools of the round left them, and a
\* history equal to the pre-round history plus the assistant message plus
\* the tool results of the round plus, when quick replies are injected in
\* the round, the injected assistant entry; the copy the loop holds is the
\* saved session.
C28_RoundSaveKeepsToolStateAndInjection ==
    [][EndsRound =>
          /\ ToolStateKept
          /\ st' = Session
          /\ history' = IF InjectionCase
                        THEN Append(MergedHistory, InjectedEntry(QuickReplies(msg.content)))
                        ELSE MergedHistory]_vars

\* a round whose tools changed the plan has been saved, and a further round
\* follows
C28_Witness ==
    /\ pc = "llm"
    /\ round >= 1
    /\ themes # <<>> /\ Get(topics, DEFAULT_THEMES[1]) # <<>>
    /\ st = Session
    /\ history[Len(history)].role = "tool"

(***************************************************************************)
(* Race specification: two requests of one session are served at the same  *)
(* time, one thread each.  load_state and save_state are the atomic steps; *)
(* every request and every tool works on a copy of its own between its     *)
(* load and its save.  Each request gets a response that adds a theme and  *)
(* then a plain text.  A stored session holds the system entry at least:   *)
(* the empty history stands for a session id without a row.                *)
(***************************************************************************)
\* load_state finds a row
HasRow == history # <<>>

\* load_state: the whole stored session
Stored ==
    [stage |-> stage, themes |-> themes, topics |-> topics, qa_items |-> qa_items,
     qa_queue |-> qa_queue, current_question |-> current_question, history |-> history]

\* save_state: REPLACE INTO sessions, the whole stored session is replaced
Save(s) ==
    /\ stage' = s.stage
    /\ themes' = s.themes
    /\ topics' = s.topics
    /\ qa_items' = s.qa_items
    /\ qa_queue' = s.qa_queue
    /\ current_question' = s.current_question
    /\ history' = s.history

NotSaved == UNCHANGED <<stage, themes, topics, qa_items, qa_queue, current_question, history>>

\* the variables of the single request of the loop specification
OneRequest == <<pc, round, msg, todo, tool_results, reply, payload, st, summary>>

\* the bookkeeping of the tools that the route calls itself
RouteTools == <<op, ret, calls, summaries>>

\* messages of four words or more without a vague phrase
RaceMessage(p) ==
    IF p = 1 THEN "Ik wil een geboorteplan maken" ELSE "Ik wil ook een thema"

RaceTheme(p) == DEFAULT_THEMES[p]

RaceResponses(p) ==
    <<Calling(NoContent, <<Call("add_item", Obj(<<"item_type", "name">>,
                                             [item_type |-> "theme", name |-> RaceTheme(p)]))>>),
      Plain("Klaar.")>>

\* the response of the round that request p is in
RaceMsg(p) == WithIds(RaceResponses(p)[turns[p].round], <<p, turns[p].round>>)

\* st=get_session(sid) of agent_route: load_state
RaceRouteLoad(p) ==
    /\ turns[p].pc = "idle"
    /\ turns' = IF HasRow
                THEN [turns EXCEPT ![p].st = Stored, ![p].pc = "route"]
                ELSE [turns EXCEPT ![p].pc = "create"]
    /\ NotSaved
    /\ UNCHANGED <<OneRequest, RouteTools>>

\* get_session after load_state found no row: the new session is saved
RaceCreate(p) ==
    /\ turns[p].pc = "create"
    /\ Save(NewSession)
    /\ turns' = [turns EXCEPT ![p].st = NewSession, ![p].pc = "route"]
    /\ UNCHANGED <<OneRequest, RouteTools>>

\* st["history"].append(user message); save_state(sid,st)
RaceRouteSave(p) ==
    /\ turns[p].pc = "route"
    /\ LET s == [turns[p].st EXCEPT !.history = Append(@, UserEntry(RaceMessage(p)))]
       IN  /\ Save(s)
           /\ turns' = [turns EXCEPT ![p].st = s, ![p].pc = "loop"]
    /\ UNCHANGED <<OneRequest, RouteTools>>

\* detect_sentiment(st["history"][-1]["content"]) raises: the entry has no
\* content, or its content is None
NoSentiment(entry) == "content" \notin DOMAIN entry \/ entry.content = NoContent

\* st = get_session(sid) of run_main_agent_loop and the guardrail on the
\* last entry of the history just loaded; an exception is answered by the
\* except of agent_route
RaceLoopLoad(p) ==
    /\ turns[p].pc = "loop"
    /\ LET last == history[Len(history)]
       IN  IF NoSentiment(last)
           THEN turns' = [turns EXCEPT ![p].st = Stored, ![p].pc = "done", ![p].status = 500]
           ELSE IF detect_sentiment(last.content) = "needs_menu"
           THEN IF ArgumentMismatch("present_tool_choices",
                                    Obj(<<"choices">>, [choices |-> MenuJson]))
                THEN turns' = [turns EXCEPT ![p].st = Stored, ![p].pc = "done",
                                            ![p].status = 500]
                ELSE turns' = [turns EXCEPT ![p].st = Stored, ![p].pc = "returned"]
           ELSE turns' = [turns EXCEPT ![p].st = Stored, ![p].pc = "llm"]
    /\ NotSaved
    /\ UNCHANGED <<OneRequest, RouteTools>>

\* client.chat.completions.create answers; the response is appended to the
\* history of the request's own copy
RaceLLMResponds(p) ==
    /\ turns[p].pc = "llm"
    /\ RoundsLeft(turns[p].round)
    /\ turns[p].round < Len(RaceResponses(p))
    /\ LET k == turns[p].round + 1
           m == WithIds(RaceResponses(p)[k], <<p, k>>)
       IN  turns' = [turns EXCEPT ![p].round = k,
                                  ![p].st.history = Append(@, Dump(m)),
                                  ![p].tool_results = <<>>,
                                  ![p].pc = IF m.tool_calls = <<>> THEN "merge" ELSE "tool"]
    /\ NotSaved
    /\ UNCHANGED <<OneRequest, RouteTools>>

\* st=get_session(session_id) of add_item
RaceToolLoad(p) ==
    /\ turns[p].pc = "tool"
    /\ turns' = [turns EXCEPT ![p].tool_st = Stored, ![p].pc = "tool_save"]
    /\ NotSaved
    /\ UNCHANGED <<OneRequest, RouteTools>>

\* add_item(item_type='theme') on the copy it loaded
add_theme(s, name, is_custom) ==
    LET isNew == name \notin ThemeNamesOf(s.themes)
    IN  [s EXCEPT !.themes = IF isNew
                             THEN Append(@, [name |-> name, is_custom |-> is_custom])
                             ELSE @,
                  !.stage = StageAfterAddTheme(isNew, @)]

\* the rest of add_item with its save_state, and the result of the call
RaceToolSave(p) ==
    /\ turns[p].pc = "tool_save"
    /\ LET call == RaceMsg(p).tool_calls[1]
           args == call.function.arguments
           full == ThemeLimitReached(turns[p].tool_st.themes)
       IN  /\ IF full
              THEN NotSaved
              ELSE Save(add_theme(turns[p].tool_st, args.vals.name, Arg(args, "is_custom", FALSE)))
           /\ turns' = [turns EXCEPT
                           ![p].tool_results =
                               Append(@, ToolEntry(call, IF full THEN RetMaxThemes ELSE RetOk)),
                           ![p].tool_st = None,
                           ![p].added = @ \/ ~full,
                           ![p].pc = "merge"]
    /\ UNCHANGED <<OneRequest, RouteTools>>

\* step 4 of the round: local_history, st = get_session(sid), st["history"]
RaceMergeLoad(p) ==
    /\ turns[p].pc = "merge"
    /\ turns' = [turns EXCEPT
                    ![p].st = [Stored EXCEPT
                                 !.history = turns[p].st.history \o turns[p].tool_results],
                    ![p].pc = "save"]
    /\ NotSaved
    /\ UNCHANGED <<OneRequest, RouteTools>>

\* step 6 of the round, save_state(sid, st), and the return or the next round
RaceRoundSave(p) ==
    /\ turns[p].pc = "save"
    /\ Save(turns[p].st)
    /\ turns' = [turns EXCEPT
                    ![p].pc = IF \/ ShortCircuit(FALSE, RaceMsg(p))
                                 \/ RaceMsg(p).tool_calls = <<>>
                              THEN "returned" ELSE "llm"]
    /\ UNCHANGED <<OneRequest, RouteTools>>

\* final_st = get_session(sid) of agent_route; the answer, built from
\* final_st, or the call of save_plan_summary when final_st is completed
RaceRespond(p) ==
    /\ turns[p].pc = "returned"
    /\ turns' = IF stage = COMPLETED
                THEN [turns EXCEPT ![p].st = Stored, ![p].pc = "summary_load"]
                ELSE [turns EXCEPT ![p].st = Stored, ![p].pc = "done", ![p].status = 200]
    /\ NotSaved
    /\ UNCHANGED <<OneRequest, RouteTools>>

\* st=get_session(session_id) of save_plan_summary; the completion call is
\* next
RaceSummaryLoad(p) ==
    /\ turns[p].pc = "summary_load"
    /\ turns' = [turns EXCEPT ![p].tool_st = Stored, ![p].pc = "summary_call"]
    /\ NotSaved
    /\ UNCHANGED <<OneRequest, RouteTools>>

\* the completion call of save_plan_summary returns or raises
RaceSummaryCall(p) ==
    /\ turns[p].pc = "summary_call"
    /\ \E outcome \in SummaryOutcomes :
           turns' = [turns EXCEPT ![p].summary = SummaryText(outcome),
                                  ![p].pc = "summary_insert"]
    /\ NotSaved
    /\ UNCHANGED <<OneRequest, RouteTools>>

\* the INSERT of save_plan_summary, and agent_route answers with the payload
\* of the final_st it holds
RaceSummaryInsert(p) ==
    /\ turns[p].pc = "summary_insert"
    /\ save_plan_summary(turns[p].summary)
    /\ turns' = [turns EXCEPT ![p].tool_st = None, ![p].summary = "", ![p].pc = "done",
                              ![p].status = 200]
    /\ UNCHANGED <<history, OneRequest>>

NextRace ==
    \/ \E p \in Procs : RaceRouteLoad(p)
    \/ \E p \in Procs : RaceCreate(p)
    \/ \E p \in Procs : RaceRouteSave(p)
    \/ \E p \in Procs : RaceLoopLoad(p)
    \/ \E p \in Procs : RaceLLMResponds(p)
    \/ \E p \in Procs : RaceToolLoad(p)
    \/ \E p \in Procs : RaceToolSave(p)
    \/ \E p \in Procs : RaceMergeLoad(p)
    \/ \E p \in Procs : RaceRoundSave(p)
    \/ \E p \in Procs : RaceRespond(p)
    \/ \E p \in Procs : RaceSummaryLoad(p)
    \/ \E p \in Procs : RaceSummaryCall(p)
    \/ \E p \in Procs : RaceSummaryInsert(p)

\* an earlier request of the session: a theme is added and the next question
\* is asked for, which completes the session as no question is queued
EarlierResponse ==
    WithIds(Calling(NoContent,
                    <<Call("add_item", Obj(<<"item_type", "name">>,
                                           [item_type |-> "theme", name |-> DEFAULT_THEMES[1]])),
                      Call("get_next_question", NoArgs)>>), 1)

\* the session as that request left it
CompletedSession ==
    [NewSession EXCEPT
        !.stage = COMPLETED,
        !.themes = <<[name |-> DEFAULT_THEMES[1], is_custom |-> FALSE]>>,
        !.history = @ \o <<UserEntry("Ik wil het thema Ondersteuning"),
                           Dump(EarlierResponse),
                           ToolEntry(EarlierResponse.tool_calls[1], RetOk),
                           ToolEntry(EarlierResponse.tool_calls[2], RetAllAnswered),
                           Dump(WithIds(Plain("Klaar."), 2))>>]

\* the session id is new, has the row of a session just made, or has the
\* row of a completed session with its summary
RaceStarts ==
    {<<[NewSession EXCEPT !.history = <<>>], <<>>>>,
     <<NewSession, <<>>>>,
     <<CompletedSession, <<"- bevallen in bad">>>>}

InitRace == \E start \in RaceStarts : SessionStarts(start[1], start[2])

SpecRace == InitRace /\ [][NextRace]_vars

\* both requests have been answered
BothAnswered == \A p \in Procs : turns[p].pc = "done"

\* C29: when two turns of one session run at the same time with their loads
\* and saves interleaved, the session stored in the end holds the user
\* messages of both turns in its history and the theme of every add_item
\* that a turn executed: no update is lost.
C29_ConcurrentTurnsLoseNothing ==
    BothAnswered =>
        \A p \in Procs :
            /\ UserEntry(RaceMessage(p)) \in Range(history)
            /\ turns[p].added => RaceTheme(p) \in ThemeNamesOf(themes)

====
